---- MODULE Spec2Model ----
(***************************************************************************)
(* Model of the expression engine: the Pratt parser of parser.rs (Parser), *)
(* its earlier copy in ast.rs (AST), the canonical printer (ExprAST::expr) *)
(* and the tree-walking evaluator (ExprAST::exec) over a mutable context.  *)
(* The token stream, the operator registries and the context live in       *)
(* modules of the crate that are outside src/ (token.rs, tokenizer.rs,     *)
(* operator.rs, context.rs); they are modelled from spec.md.               *)
(* An input of Spec is the token stream of a source text that the          *)
(* tokenizer accepts, so Tokenizer::next never fails with a lexical error  *)
(* there; SpecExpr starts from a tree and tokenizes the text printed for   *)
(* it; SpecLoops runs the loops of Parser one iteration at a time;         *)
(* SpecExec executes trees that a caller builds without the parser.        *)
(* An operator that runs several fallible steps in sequence passes each    *)
(* step's result to a local operator that decides how to go on, which is   *)
(* how the `?` of the source reads: return the error, or continue.         *)
(***************************************************************************)
EXTENDS Integers, Sequences, FiniteSets, TLC

VARIABLES tokens, entry, pc, parsed, ctx0, ctx, res, tree, canon, res0, iteration

vars == <<tokens, entry, pc, parsed, ctx0, ctx, res, tree, canon, res0, iteration>>

(***************************************************************************)
(* Tokens (spec.md section 3).  The source position carried by a token is  *)
(* used for diagnostics only and is left out.                              *)
(***************************************************************************)
TNumber(n) == [kind |-> "Number", num |-> n]
TBool(b) == [kind |-> "Bool", b |-> b]
TReference(n) == [kind |-> "Reference", name |-> n]
TFunction(n) == [kind |-> "Function", name |-> n]
TOperator(o) == [kind |-> "Operator", op |-> o]
TDelim(ty) == [kind |-> "Delim", ty |-> ty]
TEOF == [kind |-> "EOF"]

OpenParen == TDelim("OpenParen")
CloseParen == TDelim("CloseParen")
OpenBracket == TDelim("OpenBracket")
CloseBracket == TDelim("CloseBracket")
OpenBrace == TDelim("OpenBrace")
CloseBrace == TDelim("CloseBrace")
Comma == TDelim("Comma")
Colon == TDelim("Colon")
Semicolon == TDelim("Semicolon")
QuestionMark == TDelim("QuestionMark")

\* The symbol a delimiter kind stands for, as Tokenizer::expect names it.
DelimSymbol(ty) ==
    CASE ty = "OpenParen" -> "("
      [] ty = "CloseParen" -> ")"
      [] ty = "OpenBracket" -> "["
      [] ty = "CloseBracket" -> "]"
      [] ty = "OpenBrace" -> "{"
      [] ty = "CloseBrace" -> "}"
      [] ty = "Comma" -> ","
      [] ty = "Colon" -> ":"
      [] ty = "Semicolon" -> ";"
      [] ty = "QuestionMark" -> "?"

(***************************************************************************)
(* Binary operator registry (spec.md section 6): symbol -> precedence and  *)
(* category.  One or more operators of each precedence class are modelled. *)
(***************************************************************************)
SetterOps == {"=", "+=", "-="}
CalcOps == {"||", "&&", "==", "!=", "<", "<<", "+", "-", "*"}
BinOps == SetterOps \cup CalcOps
UnaryOps == {"!", "-"}

\* BinaryOpFuncManager::get_precidence: unknown operators yield -1.
get_precidence(op) ==
    CASE op \in SetterOps -> 1
      [] op = "||" -> 2
      [] op = "&&" -> 3
      [] op \in {"==", "!="} -> 4
      [] op = "<" -> 5
      [] op = "<<" -> 6
      [] op \in {"+", "-"} -> 7
      [] op = "*" -> 8
      [] OTHER -> -1

\* BinaryOpFuncManager::get_op_type for a registered operator.
get_op_type(op) == IF op \in SetterOps THEN "SETTER" ELSE "CALC"

(***************************************************************************)
(* Token predicates (spec.md section 4.1).                                 *)
(***************************************************************************)
is_eof(tok) == tok.kind = "EOF"
is_delim(tok, ty) == tok.kind = "Delim" /\ tok.ty = ty
is_question_mark(tok) == is_delim(tok, "QuestionMark")
is_semicolon(tok) == is_delim(tok, "Semicolon")
is_close_paren(tok) == is_delim(tok, "CloseParen")
is_close_bracket(tok) == is_delim(tok, "CloseBracket")
is_close_brace(tok) == is_delim(tok, "CloseBrace")
is_binop_token(tok) == tok.kind = "Operator" /\ tok.op \in BinOps
is_op_token(tok) == tok.kind = "Operator" \/ is_question_mark(tok)

(***************************************************************************)
(* AST nodes (parser.rs, enum ExprAST).                                    *)
(***************************************************************************)
LNumber(n) == [type |-> "Literal", lit |-> [k |-> "Number", n |-> n]]
LBool(b) == [type |-> "Literal", lit |-> [k |-> "Bool", b |-> b]]
Reference(n) == [type |-> "Reference", name |-> n]
Unary(op, rhs) == [type |-> "Unary", op |-> op, rhs |-> rhs]
Binary(op, lhs, rhs) == [type |-> "Binary", op |-> op, lhs |-> lhs, rhs |-> rhs]
Ternary(c, lhs, rhs) == [type |-> "Ternary", cond |-> c, lhs |-> lhs, rhs |-> rhs]
Function(n, args) == [type |-> "Function", name |-> n, args |-> args]
List(items) == [type |-> "List", items |-> items]
Map(pairs) == [type |-> "Map", pairs |-> pairs]
Chain(stmts) == [type |-> "Chain", stmts |-> stmts]
NoneAST == [type |-> "None"]

(***************************************************************************)
(* Parser state: the token sequence and the index of the current token.    *)
(* A parse step returns Ok(ast) or Err(e) together with the new index.     *)
(***************************************************************************)
POk(ast, pos) == [ok |-> TRUE, ast |-> ast, pos |-> pos]
PErr(e, pos) == [ok |-> FALSE, err |-> e, pos |-> pos]

\* Parser::cur_tok: past the last token the tokenizer reports EOF.
cur_tok(toks, pos) == IF pos > Len(toks) THEN TEOF ELSE toks[pos]

\* Parser::next: advance the tokenizer by one token (EOF is sticky).
next(toks, pos) == IF pos > Len(toks) THEN pos ELSE pos + 1

\* Tokenizer::expect: the current token must be the delimiter (or operator)
\* with the given symbol; advance past it, otherwise an error.
expect(toks, pos, sym) ==
    LET tok == cur_tok(toks, pos) IN
    IF \/ tok.kind = "Delim" /\ DelimSymbol(tok.ty) = sym
       \/ tok.kind = "Operator" /\ tok.op = sym
    THEN [ok |-> TRUE, pos |-> next(toks, pos)]
    ELSE IF is_eof(tok) THEN PErr("UnexpectedEOF", pos)
    ELSE PErr("UnexpectedToken", pos)

\* Parser::get_token_precidence
get_token_precidence(tok) ==
    IF tok.kind = "Operator" THEN get_precidence(tok.op) ELSE -1

RECURSIVE parse_token(_, _)
RECURSIVE parse_expression(_, _)
RECURSIVE parse_op(_, _, _, _)
RECURSIVE parse_open_bracket_loop(_, _, _)
RECURSIVE parse_open_brace_loop(_, _, _)
RECURSIVE parse_function_loop(_, _, _, _)
RECURSIVE parse_chain_loop(_, _, _)

\* Parser::parse_primary
parse_primary(toks, pos) == parse_token(toks, pos)

\* Parser::parse_unary
parse_unary(toks, pos, op) ==
    LET wrap(r) == IF r.ok THEN POk(Unary(op, r.ast), r.pos) ELSE r
    IN wrap(parse_primary(toks, next(toks, pos)))

\* Parser::parse_open_paren
parse_open_paren(toks, pos) ==
    LET close(r) ==
          IF ~r.ok THEN r
          ELSE IF ~is_close_paren(cur_tok(toks, r.pos)) THEN PErr("NoCloseDelim", r.pos)
          ELSE POk(r.ast, next(toks, r.pos))
    IN close(parse_expression(toks, next(toks, pos)))

\* Parser::parse_open_bracket, the loop and the closing expect("]")
parse_open_bracket_loop(toks, pos, exprs) ==
    LET finish(e) == IF e.ok THEN POk(List(exprs), e.pos) ELSE e
        after_comma(r, e) ==
          IF e.ok THEN parse_open_bracket_loop(toks, e.pos, Append(exprs, r.ast)) ELSE e
        item(r) ==
          IF ~r.ok THEN r
          ELSE IF ~is_close_bracket(cur_tok(toks, r.pos))
               THEN after_comma(r, expect(toks, r.pos, ","))
               ELSE parse_open_bracket_loop(toks, r.pos, Append(exprs, r.ast))
    IN IF is_eof(cur_tok(toks, pos)) \/ is_close_bracket(cur_tok(toks, pos))
       THEN finish(expect(toks, pos, "]"))
       ELSE item(parse_expression(toks, pos))

\* Parser::parse_open_bracket
parse_open_bracket(toks, pos) == parse_open_bracket_loop(toks, next(toks, pos), <<>>)

\* Parser::parse_open_brace, the loop and the closing expect("}")
parse_open_brace_loop(toks, pos, m) ==
    LET finish(e) == IF e.ok THEN POk(Map(m), e.pos) ELSE e
        after_comma(k, v, e) ==
          IF e.ok THEN parse_open_brace_loop(toks, e.pos, Append(m, <<k.ast, v.ast>>)) ELSE e
        entry_value(k, v) ==
          IF ~v.ok THEN v
          ELSE IF ~is_close_brace(cur_tok(toks, v.pos))
               THEN after_comma(k, v, expect(toks, v.pos, ","))
               ELSE parse_open_brace_loop(toks, v.pos, Append(m, <<k.ast, v.ast>>))
        entry_colon(k, c) ==
          IF ~c.ok THEN c ELSE entry_value(k, parse_expression(toks, c.pos))
        entry_key(k) ==
          IF ~k.ok THEN k ELSE entry_colon(k, expect(toks, k.pos, ":"))
    IN IF is_eof(cur_tok(toks, pos)) \/ is_close_brace(cur_tok(toks, pos))
       THEN finish(expect(toks, pos, "}"))
       ELSE entry_key(parse_expression(toks, pos))

\* Parser::parse_open_brace
parse_open_brace(toks, pos) == parse_open_brace_loop(toks, next(toks, pos), <<>>)

\* Parser::parse_function, the argument loop
parse_function_loop(toks, pos, name, ans) ==
    LET after_comma(r, e) ==
          IF e.ok THEN parse_function_loop(toks, e.pos, name, Append(ans, r.ast)) ELSE e
        argument(r) ==
          IF ~r.ok THEN r
          ELSE IF is_close_paren(cur_tok(toks, r.pos))
               THEN POk(Function(name, Append(ans, r.ast)), next(toks, r.pos))
               ELSE after_comma(r, expect(toks, r.pos, ","))
    IN argument(parse_expression(toks, pos))

\* Parser::parse_function
parse_function(toks, pos, name) ==
    LET arguments(e) ==
          IF ~e.ok THEN e
          ELSE IF is_close_paren(cur_tok(toks, e.pos))
               THEN POk(Function(name, <<>>), next(toks, e.pos))
               ELSE parse_function_loop(toks, e.pos, name, <<>>)
    IN arguments(expect(toks, next(toks, pos), "("))

\* Parser::parse_delim
parse_delim(toks, pos, ty) ==
    CASE ty = "OpenParen" -> parse_open_paren(toks, pos)
      [] ty = "OpenBracket" -> parse_open_bracket(toks, pos)
      [] ty = "OpenBrace" -> parse_open_brace(toks, pos)
      [] OTHER -> PErr("NoOpenDelim", pos)

\* parse_token with end of input accepted as an empty node
parse_token_eof_none(pos) == POk(NoneAST, pos)

\* Parser::parse_token, the arm taken at end of input
parse_token_eof(pos) == PErr("UnexpectedEOF", pos)

\* Parser::parse_token
parse_token(toks, pos) ==
    LET token == cur_tok(toks, pos) IN
    CASE token.kind = "Number" -> POk(LNumber(token.num), next(toks, pos))
      [] token.kind = "Bool" -> POk(LBool(token.b), next(toks, pos))
      [] token.kind = "Reference" -> POk(Reference(token.name), next(toks, pos))
      [] token.kind = "Function" -> parse_function(toks, pos, token.name)
      [] token.kind = "Operator" -> parse_unary(toks, pos, token.op)
      [] token.kind = "Delim" -> parse_delim(toks, pos, token.ty)
      [] token.kind = "EOF" -> parse_token_eof(pos)
      [] OTHER -> PErr("UnexpectedToken", pos)

\* parse_op with the precedence comparison inverted
rhs_binds_tighter_inverted(tok_prec, nxt) ==
    is_binop_token(nxt) /\ tok_prec > get_token_precidence(nxt)

\* Parser::parse_op, the test that hands the rhs to a nested parse_op
rhs_binds_tighter(tok_prec, nxt) ==
    is_binop_token(nxt) /\ tok_prec < get_token_precidence(nxt)

\* parse_op climbing on equal precedence too: the rhs is handed to a nested
\* parse_op when the next operator binds as tightly, with the same minimum
parse_op_right_assoc(toks, pos, exec_prec, lhs) ==
    LET tok == cur_tok(toks, pos)
        tok_prec == get_token_precidence(tok)
        ternary_else(a, b) ==
          IF ~b.ok THEN b ELSE POk(Ternary(lhs, a.ast, b.ast), b.pos)
        ternary_colon(a, e) ==
          IF ~e.ok THEN e ELSE ternary_else(a, parse_expression(toks, e.pos))
        ternary_then(a) ==
          IF ~a.ok THEN a ELSE ternary_colon(a, expect(toks, a.pos, ":"))
        binary(rhs) ==
          IF ~rhs.ok THEN rhs
          ELSE parse_op(toks, rhs.pos, exec_prec, Binary(tok.op, lhs, rhs.ast))
        binary_rhs(rhs) ==
          IF ~rhs.ok THEN rhs
          ELSE IF /\ is_binop_token(cur_tok(toks, rhs.pos))
                  /\ tok_prec <= get_token_precidence(cur_tok(toks, rhs.pos))
               THEN binary(parse_op(toks, rhs.pos, tok_prec, rhs.ast))
               ELSE binary(rhs)
    IN IF ~is_op_token(tok) THEN POk(lhs, pos)
       ELSE IF is_question_mark(tok)
            THEN ternary_then(parse_expression(toks, next(toks, pos)))
       ELSE IF tok_prec < exec_prec THEN POk(lhs, pos)
       ELSE binary_rhs(parse_primary(toks, next(toks, pos)))

\* Parser::parse_op
parse_op(toks, pos, exec_prec, lhs) ==
    LET tok == cur_tok(toks, pos)
        tok_prec == get_token_precidence(tok)
        ternary_else(a, b) ==
          IF ~b.ok THEN b ELSE POk(Ternary(lhs, a.ast, b.ast), b.pos)
        ternary_colon(a, e) ==
          IF ~e.ok THEN e ELSE ternary_else(a, parse_expression(toks, e.pos))
        ternary_then(a) ==
          IF ~a.ok THEN a ELSE ternary_colon(a, expect(toks, a.pos, ":"))
        binary(rhs) ==
          IF ~rhs.ok THEN rhs
          ELSE parse_op(toks, rhs.pos, exec_prec, Binary(tok.op, lhs, rhs.ast))
        binary_rhs(rhs) ==
          IF ~rhs.ok THEN rhs
          ELSE IF rhs_binds_tighter(tok_prec, cur_tok(toks, rhs.pos))
               THEN binary(parse_op(toks, rhs.pos, tok_prec + 1, rhs.ast))
               ELSE binary(rhs)
    IN IF ~is_op_token(tok) THEN POk(lhs, pos)
       ELSE IF is_question_mark(tok)
            THEN ternary_then(parse_expression(toks, next(toks, pos)))
       ELSE IF tok_prec < exec_prec THEN POk(lhs, pos)
       ELSE binary_rhs(parse_primary(toks, next(toks, pos)))

\* Parser::parse_expression
parse_expression(toks, pos) ==
    LET rest(lhs) == IF ~lhs.ok THEN lhs ELSE parse_op(toks, lhs.pos, 0, lhs.ast)
    IN rest(parse_primary(toks, pos))

\* Parser::parse_chain_expression, the statement loop
parse_chain_loop(toks, pos, ans) ==
    LET statement(r) ==
          IF ~r.ok THEN r
          ELSE IF is_semicolon(cur_tok(toks, r.pos))
               THEN parse_chain_loop(toks, next(toks, r.pos), Append(ans, r.ast))
               ELSE parse_chain_loop(toks, r.pos, Append(ans, r.ast))
    IN IF is_eof(cur_tok(toks, pos)) THEN [ok |-> TRUE, ans |-> ans, pos |-> pos]
       ELSE statement(parse_expression(toks, pos))

\* parse_chain_expression without the unwrapping of a single statement
chain_result_no_unwrap(ans) == Chain(ans)

\* Parser::parse_chain_expression, the unwrapping of the collected statements
chain_result(ans) == IF Len(ans) = 1 THEN ans[1] ELSE Chain(ans)

\* Parser::parse_chain_expression
parse_chain_expression(toks, pos) ==
    LET unwrap(l) == IF ~l.ok THEN l ELSE POk(chain_result(l.ans), l.pos)
    IN unwrap(parse_chain_loop(toks, pos, <<>>))

(***************************************************************************)
(* The parser of ast.rs (struct AST), an earlier copy of Parser that the   *)
(* crate still carries.  It reads the same token stream.                   *)
(***************************************************************************)
RECURSIVE AST_parse_token(_, _)
RECURSIVE AST_parse_expression(_, _)
RECURSIVE AST_parse_op(_, _, _, _)
RECURSIVE AST_parse_open_bracket_loop(_, _, _)
RECURSIVE AST_parse_open_brace_loop(_, _, _)
RECURSIVE AST_parse_function_loop(_, _, _, _)
RECURSIVE AST_parse_chain_loop(_, _, _)

\* AST::parse_primary
AST_parse_primary(toks, pos) == AST_parse_token(toks, pos)

\* AST::parse_unary
AST_parse_unary(toks, pos, op) ==
    LET wrap(r) == IF r.ok THEN POk(Unary(op, r.ast), r.pos) ELSE r
    IN wrap(AST_parse_primary(toks, next(toks, pos)))

\* AST::parse_open_paren
AST_parse_open_paren(toks, pos) ==
    LET close(r) ==
          IF ~r.ok THEN r
          ELSE IF ~is_close_paren(cur_tok(toks, r.pos)) THEN PErr("NoCloseDelim", r.pos)
          ELSE POk(r.ast, next(toks, r.pos))
    IN close(AST_parse_expression(toks, next(toks, pos)))

\* AST::parse_open_bracket, the loop
AST_parse_open_bracket_loop(toks, pos, exprs) ==
    LET after_comma(r, e) ==
          IF e.ok THEN AST_parse_open_bracket_loop(toks, e.pos, Append(exprs, r.ast)) ELSE e
        item(r) ==
          IF ~r.ok THEN r
          ELSE IF is_close_bracket(cur_tok(toks, r.pos))
               THEN POk(List(Append(exprs, r.ast)), next(toks, r.pos))
               ELSE after_comma(r, expect(toks, r.pos, ","))
    IN item(AST_parse_expression(toks, pos))

\* AST::parse_open_bracket
AST_parse_open_bracket(toks, pos) ==
    IF is_close_bracket(cur_tok(toks, next(toks, pos)))
    THEN POk(List(<<>>), next(toks, next(toks, pos)))
    ELSE AST_parse_open_bracket_loop(toks, next(toks, pos), <<>>)

\* AST::parse_open_brace, the loop
AST_parse_open_brace_loop(toks, pos, m) ==
    LET after_comma(k, v, e) ==
          IF e.ok THEN AST_parse_open_brace_loop(toks, e.pos, Append(m, <<k.ast, v.ast>>))
          ELSE e
        entry_value(k, v) ==
          IF ~v.ok THEN v
          ELSE IF is_close_brace(cur_tok(toks, v.pos))
               THEN POk(Map(Append(m, <<k.ast, v.ast>>)), next(toks, v.pos))
               ELSE after_comma(k, v, expect(toks, v.pos, ","))
        entry_colon(k, c) ==
          IF ~c.ok THEN c ELSE entry_value(k, AST_parse_expression(toks, c.pos))
        entry_key(k) ==
          IF ~k.ok THEN k ELSE entry_colon(k, expect(toks, k.pos, ":"))
    IN entry_key(AST_parse_expression(toks, pos))

\* AST::parse_open_brace: an empty map returns with `}` still current
AST_parse_open_brace(toks, pos) ==
    IF is_close_brace(cur_tok(toks, next(toks, pos)))
    THEN POk(Map(<<>>), next(toks, pos))
    ELSE AST_parse_open_brace_loop(toks, next(toks, pos), <<>>)

\* AST::parse_function, the argument loop
AST_parse_function_loop(toks, pos, name, ans) ==
    LET after_comma(r, e) ==
          IF e.ok THEN AST_parse_function_loop(toks, e.pos, name, Append(ans, r.ast)) ELSE e
        argument(r) ==
          IF ~r.ok THEN r
          ELSE IF is_close_paren(cur_tok(toks, r.pos))
               THEN POk(Function(name, Append(ans, r.ast)), next(toks, r.pos))
               ELSE after_comma(r, expect(toks, r.pos, ","))
    IN argument(AST_parse_expression(toks, pos))

\* AST::parse_function
AST_parse_function(toks, pos, name) ==
    LET arguments(e) ==
          IF ~e.ok THEN e
          ELSE IF is_close_paren(cur_tok(toks, e.pos))
               THEN POk(Function(name, <<>>), next(toks, e.pos))
               ELSE AST_parse_function_loop(toks, e.pos, name, <<>>)
    IN arguments(expect(toks, next(toks, pos), "("))

\* AST::parse_delim
AST_parse_delim(toks, pos, ty) ==
    CASE ty = "OpenParen" -> AST_parse_open_paren(toks, pos)
      [] ty = "OpenBracket" -> AST_parse_open_bracket(toks, pos)
      [] ty = "OpenBrace" -> AST_parse_open_brace(toks, pos)
      [] OTHER -> PErr("NoOpenDelim", pos)

\* AST::parse_token: the end of input is accepted as ExprAST::None
AST_parse_token(toks, pos) ==
    LET token == cur_tok(toks, pos) IN
    CASE token.kind = "Number" -> POk(LNumber(token.num), next(toks, pos))
      [] token.kind = "Bool" -> POk(LBool(token.b), next(toks, pos))
      [] token.kind = "Reference" -> POk(Reference(token.name), next(toks, pos))
      [] token.kind = "Function" -> AST_parse_function(toks, pos, token.name)
      [] token.kind = "Operator" -> AST_parse_unary(toks, pos, token.op)
      [] token.kind = "Delim" -> AST_parse_delim(toks, pos, token.ty)
      [] token.kind = "EOF" -> POk(NoneAST, pos)
      [] OTHER -> PErr("UnexpectedToken", pos)

\* AST::parse_op
AST_parse_op(toks, pos, exec_prec, lhs) ==
    LET tok == cur_tok(toks, pos)
        tok_prec == get_token_precidence(tok)
        ternary_else(a, b) ==
          IF ~b.ok THEN b ELSE POk(Ternary(lhs, a.ast, b.ast), b.pos)
        ternary_colon(a, e) ==
          IF ~e.ok THEN e ELSE ternary_else(a, AST_parse_expression(toks, e.pos))
        ternary_then(a) ==
          IF ~a.ok THEN a ELSE ternary_colon(a, expect(toks, a.pos, ":"))
        binary(rhs) ==
          IF ~rhs.ok THEN rhs
          ELSE AST_parse_op(toks, rhs.pos, exec_prec, Binary(tok.op, lhs, rhs.ast))
        binary_rhs(rhs) ==
          IF ~rhs.ok THEN rhs
          ELSE IF /\ is_binop_token(cur_tok(toks, rhs.pos))
                  /\ tok_prec < get_token_precidence(cur_tok(toks, rhs.pos))
               THEN binary(AST_parse_op(toks, rhs.pos, tok_prec + 1, rhs.ast))
               ELSE binary(rhs)
    IN IF ~is_op_token(tok) THEN POk(lhs, pos)
       ELSE IF is_question_mark(tok)
            THEN ternary_then(AST_parse_expression(toks, next(toks, pos)))
       ELSE IF tok_prec < exec_prec THEN POk(lhs, pos)
       ELSE binary_rhs(AST_parse_primary(toks, next(toks, pos)))

\* AST::parse_expression
AST_parse_expression(toks, pos) ==
    LET rest(lhs) == IF ~lhs.ok THEN lhs ELSE AST_parse_op(toks, lhs.pos, 0, lhs.ast)
    IN rest(AST_parse_primary(toks, pos))

\* AST::parse_chain_expression, the statement loop
AST_parse_chain_loop(toks, pos, ans) ==
    LET statement(r) ==
          IF ~r.ok THEN r
          ELSE IF is_semicolon(cur_tok(toks, r.pos))
               THEN AST_parse_chain_loop(toks, next(toks, r.pos), Append(ans, r.ast))
               ELSE AST_parse_chain_loop(toks, r.pos, Append(ans, r.ast))
    IN IF is_eof(cur_tok(toks, pos)) THEN [ok |-> TRUE, ans |-> ans, pos |-> pos]
       ELSE statement(AST_parse_expression(toks, pos))

\* AST::parse_chain_expression
AST_parse_chain_expression(toks, pos) ==
    LET unwrap(l) ==
          IF ~l.ok THEN l
          ELSE POk(IF Len(l.ans) = 1 THEN l.ans[1] ELSE Chain(l.ans), l.pos)
    IN unwrap(AST_parse_chain_loop(toks, pos, <<>>))

(***************************************************************************)
(* Values (spec.md section 3) and the context (spec.md sections 3 and 6):  *)
(* a mapping from variable name to Value and a set of user functions.      *)
(***************************************************************************)
VNumber(n) == [k |-> "Number", n |-> n]
VBool(b) == [k |-> "Bool", b |-> b]
VList(items) == [k |-> "List", items |-> items]
VMap(pairs) == [k |-> "Map", pairs |-> pairs]
VNone == [k |-> "None"]
Unbound == [k |-> "Unbound"]

VarNames == {"a", "b", "c", "d", "x", "y"}
FuncNames == {"f", "sum", "d", "g"}
InnerFunctions == {"sum", "d"}

EOk(v, c) == [ok |-> TRUE, val |-> v, ctx |-> c]
EErr(e, arg, c) == [ok |-> FALSE, err |-> e, arg |-> arg, ctx |-> c]
FOk(v) == [ok |-> TRUE, val |-> v]
FErr(e) == [ok |-> FALSE, err |-> e]

\* Context::new
EmptyContext == [vars |-> [n \in VarNames |-> Unbound], funcs |-> {}]

\* Context::value: the bound value, or ReferenceNotExist(name).
value(c, name) ==
    IF c.vars[name] = Unbound THEN EErr("ReferenceNotExist", name, c)
    ELSE EOk(c.vars[name], c)

\* Context::set_variable
set_variable(c, name, v) == [c EXCEPT !.vars[name] = v]

\* Context::get_func
get_func(c, name) == name \in c.funcs

RECURSIVE SumNumbers(_)
SumNumbers(params) ==
    IF params = <<>> THEN 0 ELSE Head(params).n + SumNumbers(Tail(params))

\* A user function registered in the context (parser.rs test_exec: "f").
UserFunction(name, params) == FOk(VNumber(3))

\* InnerFunctionManager::get(name)?(params): "sum" of the built-in set, and
\* "d", registered by test_exec to return 4
InnerFunction(name, params) ==
    IF name \notin InnerFunctions THEN FErr("FunctionNotExist")
    ELSE IF name = "d" THEN FOk(VNumber(4))
    ELSE IF \A i \in 1..Len(params) : params[i].k = "Number"
         THEN FOk(VNumber(SumNumbers(params)))
         ELSE FErr("ShouldBeNumber")

RECURSIVE Pow2(_)
Pow2(n) == IF n <= 0 THEN 1 ELSE 2 * Pow2(n - 1)

\* The arithmetic an operator symbol stands for (spec.md section 6).
CalcFn(op, a, b) ==
    CASE op \in {"+", "-", "*", "<", "<<"} ->
           IF a.k = "Number" /\ b.k = "Number"
           THEN CASE op = "+" -> FOk(VNumber(a.n + b.n))
                  [] op = "-" -> FOk(VNumber(a.n - b.n))
                  [] op = "*" -> FOk(VNumber(a.n * b.n))
                  [] op = "<" -> FOk(VBool(a.n < b.n))
                  [] op = "<<" -> IF b.n >= 0 THEN FOk(VNumber(a.n * Pow2(b.n)))
                                  ELSE FErr("ShouldBeNumber")
           ELSE FErr("ShouldBeNumber")
      [] op \in {"&&", "||"} ->
           IF a.k = "Bool" /\ b.k = "Bool"
           THEN IF op = "&&" THEN FOk(VBool(a.b /\ b.b)) ELSE FOk(VBool(a.b \/ b.b))
           ELSE FErr("ShouldBeBool")
      [] op = "==" -> FOk(VBool(a = b))
      [] op = "!=" -> FOk(VBool(a # b))

\* BinaryOpFuncManager::get(op): the function registered for a binary
\* operator.  The base function of "=" is "take rhs", of "+=" it is "+".
BinaryOpFunc(op, a, b) ==
    CASE op = "=" -> FOk(b)
      [] op = "+=" -> CalcFn("+", a, b)
      [] op = "-=" -> CalcFn("-", a, b)
      [] OTHER -> CalcFn(op, a, b)

\* UnaryOpFuncManager::get(op): the function registered for a unary operator.
UnaryOpFunc(op, a) ==
    CASE op = "!" -> IF a.k = "Bool" THEN FOk(VBool(~a.b)) ELSE FErr("ShouldBeBool")
      [] op = "-" -> IF a.k = "Number" THEN FOk(VNumber(0 - a.n)) ELSE FErr("ShouldBeNumber")

(***************************************************************************)
(* The evaluator (parser.rs, impl ExprAST).  exec returns Ok(value) or     *)
(* Err(e) together with the context as the call left it.                   *)
(***************************************************************************)
RECURSIVE exec(_, _)
RECURSIVE exec_params(_, _, _, _)
RECURSIVE exec_list_loop(_, _, _, _)
RECURSIVE exec_chain_loop(_, _, _, _)
RECURSIVE exec_map_loop(_, _, _, _)

\* ExprAST::exec_literal
exec_literal(lit, c) ==
    IF lit.k = "Number" THEN EOk(VNumber(lit.n), c) ELSE EOk(VBool(lit.b), c)

\* exec_reference yielding Value::None for a name the context does not bind
exec_reference_or_none(name, c) ==
    IF c.vars[name] = Unbound THEN EOk(VNone, c) ELSE value(c, name)

\* ExprAST::exec_reference
exec_reference(name, c) == value(c, name)

\* ExprAST::get_reference_name
get_reference_name(ast) ==
    IF ast.type = "Reference" THEN FOk(ast.name) ELSE FErr("NotReferenceExpr")

\* ExprAST::exec_function, the loop that evaluates the arguments
exec_params(exprs, i, c, params) ==
    IF i > Len(exprs) THEN [ok |-> TRUE, params |-> params, ctx |-> c]
    ELSE LET r == exec(exprs[i], c) IN
         IF ~r.ok THEN r ELSE exec_params(exprs, i + 1, r.ctx, Append(params, r.val))

\* ExprAST::redirect_inner_function
redirect_inner_function(name, params, c) ==
    LET r == InnerFunction(name, params) IN
    IF r.ok THEN EOk(r.val, c) ELSE EErr(r.err, name, c)

\* exec_function consulting the inner-function registry before the context
exec_function_inner_first(name, exprs, c) ==
    LET p == exec_params(exprs, 1, c, <<>>) IN
    IF ~p.ok THEN p
    ELSE IF name \in InnerFunctions
         THEN redirect_inner_function(name, p.params, p.ctx)
         ELSE IF get_func(p.ctx, name)
              THEN LET r == UserFunction(name, p.params) IN
                   IF r.ok THEN EOk(r.val, p.ctx) ELSE EErr(r.err, name, p.ctx)
              ELSE EErr("FunctionNotExist", name, p.ctx)

\* ExprAST::exec_function
exec_function(name, exprs, c) ==
    LET p == exec_params(exprs, 1, c, <<>>) IN
    IF ~p.ok THEN p
    ELSE IF get_func(p.ctx, name)
         THEN LET r == UserFunction(name, p.params) IN
              IF r.ok THEN EOk(r.val, p.ctx) ELSE EErr(r.err, name, p.ctx)
         ELSE redirect_inner_function(name, p.params, p.ctx)

\* ExprAST::exec_unary
exec_unary(op, rhs, c) ==
    IF op \notin UnaryOps THEN EErr("UnaryOpNotRegistered", op, c)
    ELSE LET r == exec(rhs, c) IN
         IF ~r.ok THEN r
         ELSE LET v == UnaryOpFunc(op, r.val) IN
              IF v.ok THEN EOk(v.val, r.ctx) ELSE EErr(v.err, op, r.ctx)

\* exec_binary whose CALC arm skips the rhs when the lhs decides `&&` or `||`
exec_binary_calc_short_circuit(op, lhs, rhs, c) ==
    LET a == exec(lhs, c) IN
    IF ~a.ok THEN a
    ELSE IF (op = "&&" /\ a.val = VBool(FALSE)) \/ (op = "||" /\ a.val = VBool(TRUE))
    THEN EOk(a.val, a.ctx)
    ELSE LET b == exec(rhs, a.ctx) IN
    IF ~b.ok THEN b
    ELSE LET v == BinaryOpFunc(op, a.val, b.val) IN
         IF v.ok THEN EOk(v.val, b.ctx) ELSE EErr(v.err, op, b.ctx)

\* ExprAST::exec_binary, the CALC arm
exec_binary_calc(op, lhs, rhs, c) ==
    LET a == exec(lhs, c) IN
    IF ~a.ok THEN a
    ELSE LET b == exec(rhs, a.ctx) IN
    IF ~b.ok THEN b
    ELSE LET v == BinaryOpFunc(op, a.val, b.val) IN
         IF v.ok THEN EOk(v.val, b.ctx) ELSE EErr(v.err, op, b.ctx)

\* exec_binary whose SETTER arm stores the rhs value instead of op(lhs, rhs)
exec_binary_setter_stores_rhs(op, lhs, rhs, c) ==
    LET a == exec(lhs, c) IN
    IF ~a.ok THEN a
    ELSE LET b == exec(rhs, a.ctx) IN
    IF ~b.ok THEN b
    ELSE LET name == get_reference_name(lhs) IN
    IF ~name.ok THEN EErr(name.err, op, b.ctx)
    ELSE LET v == BinaryOpFunc(op, a.val, b.val) IN
    IF ~v.ok THEN EErr(v.err, op, b.ctx)
    ELSE EOk(VNone, set_variable(b.ctx, name.val, b.val))

\* ExprAST::exec_binary, the SETTER arm
exec_binary_setter(op, lhs, rhs, c) ==
    LET a == exec(lhs, c) IN
    IF ~a.ok THEN a
    ELSE LET b == exec(rhs, a.ctx) IN
    IF ~b.ok THEN b
    ELSE LET name == get_reference_name(lhs) IN
    IF ~name.ok THEN EErr(name.err, op, b.ctx)
    ELSE LET v == BinaryOpFunc(op, a.val, b.val) IN
    IF ~v.ok THEN EErr(v.err, op, b.ctx)
    ELSE EOk(VNone, set_variable(b.ctx, name.val, v.val))

\* exec_binary evaluating its operands before it looks the operator up
exec_binary_operands_first(op, lhs, rhs, c) ==
    LET a == exec(lhs, c) IN
    IF ~a.ok THEN a
    ELSE LET b == exec(rhs, a.ctx) IN
         IF ~b.ok THEN b
         ELSE IF op \notin BinOps THEN EErr("BinaryOpNotRegistered", op, b.ctx)
         ELSE IF get_op_type(op) = "CALC" THEN exec_binary_calc(op, lhs, rhs, c)
         ELSE exec_binary_setter(op, lhs, rhs, c)

\* ExprAST::exec_binary
exec_binary(op, lhs, rhs, c) ==
    IF op \notin BinOps THEN EErr("BinaryOpNotRegistered", op, c)
    ELSE IF get_op_type(op) = "CALC" THEN exec_binary_calc(op, lhs, rhs, c)
    ELSE exec_binary_setter(op, lhs, rhs, c)

\* exec_ternary evaluating both branches before it selects one
exec_ternary_eager(condition, lhs, rhs, c) ==
    LET r == exec(condition, c) IN
    IF ~r.ok THEN r
    ELSE LET t == exec(lhs, r.ctx) IN
    IF ~t.ok THEN t
    ELSE LET e == exec(rhs, t.ctx) IN
    IF ~e.ok THEN e
    ELSE IF r.val.k = "Bool"
         THEN IF r.val.b THEN EOk(t.val, e.ctx) ELSE e
         ELSE EErr("ShouldBeBool", "", e.ctx)

\* ExprAST::exec_ternary
exec_ternary(condition, lhs, rhs, c) ==
    LET r == exec(condition, c) IN
    IF ~r.ok THEN r
    ELSE IF r.val.k = "Bool"
         THEN IF r.val.b THEN exec(lhs, r.ctx) ELSE exec(rhs, r.ctx)
         ELSE EErr("ShouldBeBool", "", r.ctx)

\* ExprAST::exec_list, the loop
exec_list_loop(params, i, c, ans) ==
    IF i > Len(params) THEN EOk(VList(ans), c)
    ELSE LET r == exec(params[i], c) IN
         IF ~r.ok THEN r ELSE exec_list_loop(params, i + 1, r.ctx, Append(ans, r.val))

\* ExprAST::exec_list
exec_list(params, c) == exec_list_loop(params, 1, c, <<>>)

\* ExprAST::exec_chain, the loop
exec_chain_loop(params, i, c, ans) ==
    IF i > Len(params) THEN EOk(ans, c)
    ELSE LET r == exec(params[i], c) IN
         IF ~r.ok THEN r ELSE exec_chain_loop(params, i + 1, r.ctx, r.val)

\* exec_chain restoring the caller's context when a statement fails
exec_chain_rollback(params, c) ==
    LET r == exec_chain_loop(params, 1, c, VNone) IN
    IF r.ok THEN r ELSE EErr(r.err, r.arg, c)

\* ExprAST::exec_chain
exec_chain(params, c) == exec_chain_loop(params, 1, c, VNone)

\* exec_map evaluating the value of a pair before its key
exec_map_loop_value_first(m, i, c, ans) ==
    IF i > Len(m) THEN EOk(VMap(ans), c)
    ELSE LET v == exec(m[i][2], c) IN
         IF ~v.ok THEN v
         ELSE LET k == exec(m[i][1], v.ctx) IN
              IF ~k.ok THEN k
              ELSE exec_map_loop(m, i + 1, k.ctx, Append(ans, <<k.val, v.val>>))

\* ExprAST::exec_map, the loop
exec_map_loop(m, i, c, ans) ==
    IF i > Len(m) THEN EOk(VMap(ans), c)
    ELSE LET k == exec(m[i][1], c) IN
         IF ~k.ok THEN k
         ELSE LET v == exec(m[i][2], k.ctx) IN
              IF ~v.ok THEN v
              ELSE exec_map_loop(m, i + 1, v.ctx, Append(ans, <<k.val, v.val>>))

\* ExprAST::exec_map
exec_map(m, c) == exec_map_loop(m, 1, c, <<>>)

\* ExprAST::exec
exec(ast, c) ==
    CASE ast.type = "Literal" -> exec_literal(ast.lit, c)
      [] ast.type = "Reference" -> exec_reference(ast.name, c)
      [] ast.type = "Function" -> exec_function(ast.name, ast.args, c)
      [] ast.type = "Unary" -> exec_unary(ast.op, ast.rhs, c)
      [] ast.type = "Binary" -> exec_binary(ast.op, ast.lhs, ast.rhs, c)
      [] ast.type = "Ternary" -> exec_ternary(ast.cond, ast.lhs, ast.rhs, c)
      [] ast.type = "List" -> exec_list(ast.items, c)
      [] ast.type = "Chain" -> exec_chain(ast.stmts, c)
      [] ast.type = "Map" -> exec_map(ast.pairs, c)
      [] ast.type = "None" -> EOk(VNone, c)

(***************************************************************************)
(* Text.  A Rust String is a sequence of characters; a name or an operator *)
(* symbol of the model is spelled out by Chars.                            *)
(***************************************************************************)
DigitChars == <<"0", "1", "2", "3", "4", "5", "6", "7", "8", "9">>
AlphaChars == {"a", "b", "c", "d", "e", "f", "g", "l", "m", "r", "s", "t", "u", "x", "y"}
DelimChars == {"(", ")", "[", "]", "{", "}", ",", ":", ";", "?"}
Words == VarNames \cup FuncNames \cup {"true", "false"}

\* The characters of a name, a keyword or an operator symbol.
Chars(s) ==
    CASE s = "true" -> <<"t", "r", "u", "e">>
      [] s = "false" -> <<"f", "a", "l", "s", "e">>
      [] s = "sum" -> <<"s", "u", "m">>
      [] s = "||" -> <<"|", "|">>
      [] s = "&&" -> <<"&", "&">>
      [] s = "==" -> <<"=", "=">>
      [] s = "!=" -> <<"!", "=">>
      [] s = "<<" -> <<"<", "<">>
      [] s = "+=" -> <<"+", "=">>
      [] s = "-=" -> <<"-", "=">>
      [] OTHER -> <<s>>

RECURSIVE Digits(_)
\* Decimal::to_string of a natural number
Digits(n) ==
    IF n < 10 THEN <<DigitChars[n + 1]>>
    ELSE Digits(n \div 10) \o <<DigitChars[(n % 10) + 1]>>

(***************************************************************************)
(* The canonical printer (parser.rs, ExprAST::expr).                       *)
(***************************************************************************)
RECURSIVE expr(_)
RECURSIVE expr_list(_, _)
RECURSIVE expr_map(_, _)

\* ExprAST::literal_expr
literal_expr(lit) ==
    IF lit.k = "Number" THEN Digits(lit.n)
    ELSE IF lit.b THEN Chars("true") ELSE Chars("false")

\* ExprAST::reference_expr
reference_expr(val) == Chars(val)

\* The loop of function_expr, list_expr and chain_expr: the text of every
\* item, with sep after each but the last.
expr_list(exprs, sep) ==
    IF exprs = <<>> THEN <<>>
    ELSE IF Len(exprs) = 1 THEN expr(exprs[1])
    ELSE expr(exprs[1]) \o <<sep>> \o expr_list(Tail(exprs), sep)

\* ExprAST::function_expr
function_expr(name, exprs) == Chars(name) \o <<"(">> \o expr_list(exprs, ",") \o <<")">>

\* ExprAST::unary_expr
unary_expr(op, rhs) == Chars(op) \o <<" ">> \o expr(rhs)

\* ExprAST::get_precidence: (is a Binary, its operator's precedence)
ExprAST_get_precidence(ast) ==
    IF ast.type = "Binary" THEN <<TRUE, get_precidence(ast.op)>> ELSE <<FALSE, 0>>

\* binary_expr parenthesising an operand of equal precedence too
needs_paren_or_equal(operand, op) ==
    ExprAST_get_precidence(operand)[1]
        /\ ExprAST_get_precidence(operand)[2] <= get_precidence(op)

\* ExprAST::binary_expr, the test that puts an operand in parentheses
needs_paren(operand, op) ==
    ExprAST_get_precidence(operand)[1]
        /\ ExprAST_get_precidence(operand)[2] < get_precidence(op)

\* ExprAST::binary_expr, the text of one operand
binary_operand(operand, op) ==
    IF needs_paren(operand, op) THEN <<"(">> \o expr(operand) \o <<")">>
    ELSE expr(operand)

\* ExprAST::binary_expr
binary_expr(op, lhs, rhs) ==
    binary_operand(lhs, op) \o <<" ">> \o Chars(op) \o <<" ">> \o binary_operand(rhs, op)

\* ExprAST::ternary_expr
ternary_expr(condition, lhs, rhs) ==
    expr(condition) \o <<" ", "?", " ">> \o expr(lhs) \o <<" ", ":", " ">> \o expr(rhs)

\* ExprAST::list_expr
list_expr(params) == <<"[">> \o expr_list(params, ",") \o <<"]">>

\* The loop of map_expr
expr_map(m, sep) ==
    IF m = <<>> THEN <<>>
    ELSE expr(m[1][1]) \o <<":">> \o expr(m[1][2])
         \o (IF Len(m) = 1 THEN <<>> ELSE <<sep>> \o expr_map(Tail(m), sep))

\* ExprAST::map_expr
map_expr(m) == <<"{">> \o expr_map(m, ",") \o <<"}">>

\* ExprAST::chain_expr
chain_expr(exprs) == expr_list(exprs, ";")

\* ExprAST::expr
expr(ast) ==
    CASE ast.type = "Literal" -> literal_expr(ast.lit)
      [] ast.type = "Reference" -> reference_expr(ast.name)
      [] ast.type = "Function" -> function_expr(ast.name, ast.args)
      [] ast.type = "Unary" -> unary_expr(ast.op, ast.rhs)
      [] ast.type = "Binary" -> binary_expr(ast.op, ast.lhs, ast.rhs)
      [] ast.type = "Ternary" -> ternary_expr(ast.cond, ast.lhs, ast.rhs)
      [] ast.type = "List" -> list_expr(ast.items)
      [] ast.type = "Map" -> map_expr(ast.pairs)
      [] ast.type = "Chain" -> chain_expr(ast.stmts)
      [] ast.type = "None" -> <<>>

(***************************************************************************)
(* The tokenizer (spec.md section 4.1), applied to a whole text.           *)
(***************************************************************************)
IsDigit(ch) == \E i \in 1..10 : DigitChars[i] = ch
IsAlpha(ch) == ch \in AlphaChars \/ ch = "_"

DigitValue(ch) == (CHOOSE i \in 1..10 : DigitChars[i] = ch) - 1

RECURSIVE NumberValue(_)
\* The number a run of digits spells.
NumberValue(chs) ==
    IF chs = <<>> THEN 0
    ELSE 10 * NumberValue(SubSeq(chs, 1, Len(chs) - 1)) + DigitValue(chs[Len(chs)])

RECURSIVE RunEnd(_, _, _)
\* The index after the run of digits (or of identifier characters) at i.
RunEnd(text, i, digits) ==
    IF i > Len(text) THEN i
    ELSE IF (digits /\ IsDigit(text[i])) \/ (~digits /\ (IsAlpha(text[i]) \/ IsDigit(text[i])))
         THEN RunEnd(text, i + 1, digits)
         ELSE i

RECURSIVE SkipSpace(_, _)
\* The index of the first character that is not whitespace, from i on.
SkipSpace(text, i) ==
    IF i <= Len(text) /\ text[i] = " " THEN SkipSpace(text, i + 1) ELSE i

\* The word of the given set a sequence of characters spells, if any.
Spells(chs, words) == {w \in words : Chars(w) = chs}
Spelled(chs, words) == CHOOSE w \in words : Chars(w) = chs

DelimKind(ch) ==
    CASE ch = "(" -> "OpenParen"
      [] ch = ")" -> "CloseParen"
      [] ch = "[" -> "OpenBracket"
      [] ch = "]" -> "CloseBracket"
      [] ch = "{" -> "OpenBrace"
      [] ch = "}" -> "CloseBrace"
      [] ch = "," -> "Comma"
      [] ch = ":" -> "Colon"
      [] ch = ";" -> "Semicolon"
      [] ch = "?" -> "QuestionMark"

\* The token an identifier becomes: a Bool for true and false, otherwise a
\* Function when the next character that is not whitespace is `(`, and a
\* Reference in every other case.
IdentToken(text, chs, j) ==
    IF chs = Chars("true") THEN TBool(TRUE)
    ELSE IF chs = Chars("false") THEN TBool(FALSE)
    ELSE IF SkipSpace(text, j) <= Len(text) /\ text[SkipSpace(text, j)] = "("
         THEN TFunction(IF Spells(chs, Words) = {} THEN "unknown" ELSE Spelled(chs, Words))
         ELSE TReference(IF Spells(chs, Words) = {} THEN "unknown" ELSE Spelled(chs, Words))

RECURSIVE Tokenize(_, _, _)
\* Tokenizer::next, repeated to the end of the text: whitespace is skipped,
\* operators are matched longest first.
Tokenize(text, i, acc) ==
    LET number(j) == Tokenize(text, j, Append(acc, TNumber(NumberValue(SubSeq(text, i, j - 1)))))
        ident(j) == Tokenize(text, j, Append(acc, IdentToken(text, SubSeq(text, i, j - 1), j)))
        operator(n) ==
          Tokenize(text, i + n,
                   Append(acc, TOperator(Spelled(SubSeq(text, i, i + n - 1), BinOps \cup UnaryOps))))
    IN IF i > Len(text) THEN [ok |-> TRUE, toks |-> acc]
       ELSE IF text[i] = " " THEN Tokenize(text, i + 1, acc)
       ELSE IF IsDigit(text[i]) THEN number(RunEnd(text, i, TRUE))
       ELSE IF IsAlpha(text[i]) THEN ident(RunEnd(text, i, FALSE))
       ELSE IF text[i] \in DelimChars
            THEN Tokenize(text, i + 1, Append(acc, TDelim(DelimKind(text[i]))))
       ELSE IF i < Len(text) /\ Spells(SubSeq(text, i, i + 1), BinOps \cup UnaryOps) # {}
            THEN operator(2)
       ELSE IF Spells(<<text[i]>>, BinOps \cup UnaryOps) # {} THEN operator(1)
       ELSE [ok |-> FALSE, err |-> "UnexpectedChar", toks |-> acc]

(***************************************************************************)
(* Inputs.  A run starts from a token stream the tokenizer can produce     *)
(* (a Function token is always followed by "(") and a caller's context.    *)
(***************************************************************************)
MaxOps == 3
MaxTernaryOps == 2
MaxItems == 2
MaxStmts == 2
MaxChain == 3

OperandNames == <<"a", "b", "c", "d", "x", "y">>

Ref(n) == TReference(n)
Op(o) == TOperator(o)

\* a op1 b op2 c ...: operands joined by the binary operators ops
ChainToks(ops) ==
    LET F[i \in 0..Len(ops)] ==
          IF i = 0 THEN <<Ref(OperandNames[1])>>
          ELSE F[i - 1] \o <<Op(ops[i]), Ref(OperandNames[i + 1])>>
    IN F[Len(ops)]

OpSeqs(n) == UNION {[1..k -> BinOps] : k \in 1..n}

ChainInputs == {ChainToks(ops) : ops \in OpSeqs(MaxOps)}

\* ( a lo b ) hi c
ParenToks(lo, hi) ==
    <<OpenParen, Ref("a"), Op(lo), Ref("b"), CloseParen, Op(hi), Ref("c")>>

ParenInputs == {ParenToks(lo, hi) : lo \in BinOps, hi \in BinOps}

\* a op1 b ... ? x : y
TernaryToks(ops) == ChainToks(ops) \o <<QuestionMark, Ref("x"), Colon, Ref("y")>>

TernaryInputs == {TernaryToks(ops) : ops \in OpSeqs(MaxTernaryOps)}

\* Single-token and short operands used as items, arguments and statements.
Items == {<<Ref("a")>>, <<TNumber(2)>>, <<TBool(TRUE)>>}

RECURSIVE Joined(_, _)
\* the items of a sequence of token sequences, separated by sep
Joined(seqs, sep) ==
    IF seqs = <<>> THEN <<>>
    ELSE IF Len(seqs) = 1 THEN seqs[1]
    ELSE seqs[1] \o <<sep>> \o Joined(Tail(seqs), sep)

ItemSeqs(n) == UNION {[1..k -> Items] : k \in 0..n}

\* The opening tokens of the three comma-separated constructs.
ListOpen == <<OpenBracket>>
CallOpen == <<TFunction("f"), OpenParen>>
MapOpen == <<OpenBrace>>

\* key:value entries built from items
Entry(it) == it \o <<Colon>> \o it
EntrySeqs(n) == {[i \in 1..Len(s) |-> Entry(s[i])] : s \in ItemSeqs(n)}

\* Complete comma-separated constructs, and the same with a trailing comma.
CommaBody(open, close, seqs, trailing) ==
    open \o Joined(seqs, Comma) \o (IF trailing THEN <<Comma>> ELSE <<>>) \o <<close>>

ListInputs(trailing) ==
    {CommaBody(ListOpen, CloseBracket, s, trailing) :
        s \in IF trailing THEN ItemSeqs(MaxItems) \ {<<>>} ELSE ItemSeqs(MaxItems)}
CallInputs(trailing) ==
    {CommaBody(CallOpen, CloseParen, s, trailing) :
        s \in IF trailing THEN ItemSeqs(MaxItems) \ {<<>>} ELSE ItemSeqs(MaxItems)}
MapInputs(trailing) ==
    {CommaBody(MapOpen, CloseBrace, s, trailing) :
        s \in IF trailing THEN EntrySeqs(MaxItems) \ {<<>>} ELSE EntrySeqs(MaxItems)}

CommaInputs == UNION {ListInputs(t) \cup CallInputs(t) \cup MapInputs(t) : t \in BOOLEAN}
TrailingCommaInputs == ListInputs(TRUE) \cup CallInputs(TRUE) \cup MapInputs(TRUE)

\* a op, a op1 b op: a binary operator with no right operand
TrailingOperatorInputs ==
    {ChainToks(ops) \o <<Op(o)>> : ops \in OpSeqs(1) \cup {<<>>}, o \in BinOps}

\* Inputs that reach the end of input inside an incomplete construct
\* (parser.rs test_parse_expression_error and their variations).
WithComma(body) == IF body = <<>> THEN {body} ELSE {body, body \o <<Comma>>}

IncompleteInputs ==
    UNION {{open \o b : b \in WithComma(Joined(s, Comma))} :
              open \in {ListOpen, CallOpen}, s \in ItemSeqs(MaxItems)}
    \cup {<<OpenParen>> \o it : it \in Items \cup {<<>>}}
    \cup UNION {{MapOpen \o b : b \in WithComma(Joined(s, Comma))} :
                   s \in EntrySeqs(MaxItems)}
    \cup {MapOpen \o Joined(s, Comma) \o (IF s = <<>> THEN <<>> ELSE <<Comma>>) \o it \o c :
            s \in EntrySeqs(MaxItems - 1), it \in Items, c \in {<<>>, <<Colon>>}}
    \cup {MapOpen \o it \o <<Colon, CloseBrace>> : it \in Items}
    \cup {CallOpen \o <<Comma, CloseParen>>}
    \cup {c \o <<QuestionMark>> \o t : c \in Items, t \in {<<>>} \cup Items}
    \cup {c \o <<QuestionMark>> \o t \o <<Colon>> : c \in Items, t \in Items}
    \cup TrailingOperatorInputs

\* Statements of a chain.
Stmts ==
    Items \cup {<<Ref("a"), Op("="), TNumber(1)>>,
                <<Op("!"), Ref("a")>>,
                <<OpenBracket, CloseBracket>>}

StmtSeqs(n) == UNION {[1..k -> Stmts] : k \in 0..n}

\* expression (';' expression)*: one or more statements separated by ";"
SeparatedInputs == {Joined(s, Semicolon) : s \in StmtSeqs(MaxStmts) \ {<<>>}}

\* a ";" with no expression after it
DanglingSemicolonInputs == {Joined(s, Semicolon) \o <<Semicolon>> : s \in StmtSeqs(MaxStmts)}

\* two statements with no ";" between them
JuxtaposedInputs == {s[1] \o s[2] : s \in [1..2 -> Stmts]}

\* Statements separated by ";" (or by nothing), with or without a final ";".
ChainStmtInputs ==
    {<<>>} \cup SeparatedInputs \cup DanglingSemicolonInputs \cup JuxtaposedInputs

\* ( n op e ): a parenthesised setter, an operand that writes the context
Paren(toks) == <<OpenParen>> \o toks \o <<CloseParen>>
Write(n, o, e) == Paren(<<Ref(n), Op(o), TNumber(e)>>)

\* One primary of every form: literal, reference, call with and without
\* arguments, parenthesised expression, empty and non-empty list and map,
\* unary application.
PrimaryInputs ==
    Items
    \cup {CallOpen \o <<CloseParen>>, CallOpen \o <<Ref("a"), Comma, TNumber(2), CloseParen>>}
    \cup {Paren(<<Ref("a")>>), Paren(<<Ref("a"), Op("+"), Ref("b")>>)}
    \cup {<<OpenBracket, CloseBracket>>, <<OpenBracket, Ref("a"), Comma, TNumber(2), CloseBracket>>}
    \cup {<<OpenBrace, CloseBrace>>, <<OpenBrace, Ref("a"), Colon, TNumber(2), CloseBrace>>}
    \cup {<<Op("!"), Ref("a")>>, <<Op("-"), TNumber(2)>>, <<Op("-")>> \o Paren(<<Ref("a")>>)}

\* primary * c: a primary followed by a binary operator and its operand
PrimaryThenOpInputs == {p \o <<Op("*"), Ref("c")>> : p \in PrimaryInputs}

\* Tokens that start no expression and continue none, and operators that
\* are not binary: a closing delimiter, a separator, `?`, `!`.
StrayTokens ==
    {CloseParen, CloseBracket, CloseBrace, Comma, Colon, Semicolon, QuestionMark, Op("!")}

\* A stray token at the start of a statement, of a list item, of a map key
\* or value, of an argument, or after an operand.
StrayInputs ==
    {pre \o <<t>> \o post :
        pre \in {<<>>, <<Ref("a")>>, <<Ref("a"), Semicolon>>, <<Ref("a"), Op("+")>>,
                 <<OpenBracket>>, <<OpenBracket, Ref("a")>>,
                 <<OpenBrace>>, <<OpenBrace, Ref("a"), Colon>>,
                 CallOpen, CallOpen \o <<Ref("a")>>},
        t \in StrayTokens,
        post \in {<<>>, <<Ref("b")>>}}

ParseInputs ==
    ChainInputs \cup ParenInputs \cup TernaryInputs \cup CommaInputs
    \cup IncompleteInputs \cup ChainStmtInputs
    \cup PrimaryInputs \cup PrimaryThenOpInputs \cup StrayInputs

\* n op rhs: a setter applied to a reference
SetterRhs ==
    {<<TNumber(1)>>, <<TNumber(2)>>, <<TBool(TRUE)>>, <<Ref("b")>>,
     <<Ref("b"), Op("+"), TNumber(1)>>,
     <<OpenParen, Ref("b"), Op("="), TNumber(2), CloseParen>>,
     <<OpenParen, Ref("a"), Op("="), TNumber(2), CloseParen>>}

SetterInputs == {<<Ref("a"), Op(o)>> \o r : o \in SetterOps, r \in SetterRhs}

\* lhs op rhs: a setter applied to something that is not a reference
NonReferenceLhs ==
    {<<Ref("a"), Op("="), Ref("b")>>, <<TNumber(1)>>,
     <<OpenParen, Ref("a"), Op("+"), TNumber(1), CloseParen>>,
     <<Ref("a"), Op("+"), TNumber(1)>>,
     <<TFunction("f"), OpenParen, CloseParen>>,
     <<OpenBracket, CloseBracket>>}

NonReferenceSetterInputs ==
    {l \o <<Op(o)>> \o r : l \in NonReferenceLhs, o \in SetterOps,
                           r \in {<<Ref("c")>>, <<TNumber(2)>>}}

\* n = e ; n op= e2 ; n  (and  n = e ; n op= e2 ; n * 2)
SetterChainToks(n, e, o, e2, twice) ==
    <<Ref(n), Op("="), TNumber(e), Semicolon, Ref(n), Op(o), TNumber(e2), Semicolon>>
    \o (IF twice THEN <<Ref(n), Op("*"), TNumber(2)>> ELSE <<Ref(n)>>)

SetterChainInputs ==
    {SetterChainToks(n, e, o, e2, twice) :
        n \in {"a", "d"}, e \in 1..3, o \in SetterOps, e2 \in 1..4,
        twice \in BOOLEAN}

\* n: a single reference
ReferenceInputs == {<<Ref(n)>> : n \in {"a", "b", "c"}}

\* cond ? then : else, with conditions that are Bool, not Bool, failing, or
\* that write the context, and branches that fail or write the context
TernaryConds ==
    {<<TBool(TRUE)>>, <<TBool(FALSE)>>, <<Ref("a")>>, <<TNumber(1)>>,
     Write("b", "+=", 1) \o <<Op("!="), TNumber(1)>>,
     Write("b", "+=", 1) \o <<Op("=="), TNumber(1)>>}

TernaryBranches ==
    {<<TNumber(1)>>, <<Ref("c")>>, <<Ref("x")>>, Write("a", "=", 2), Write("b", "+=", 1)}

TernaryExecInputs ==
    {c \o <<QuestionMark>> \o t \o <<Colon>> \o e :
        c \in TernaryConds, t \in TernaryBranches, e \in TernaryBranches}

\* s1 ; s2 ; ...: statements that write the context, read it, or fail
ChainStmts ==
    {<<Ref("a"), Op("="), TNumber(2)>>, <<Ref("b"), Op("+="), TNumber(1)>>,
     <<Ref("b")>>, <<Ref("x")>>, <<TNumber(1)>>}

ChainExecInputs ==
    {Joined(s, Semicolon) : s \in UNION {[1..k -> ChainStmts] : k \in 2..MaxChain}}

\* l && r and l || r, with a rhs that fails or writes the context
LogicalLhs ==
    {<<TBool(TRUE)>>, <<TBool(FALSE)>>, <<Ref("a")>>, <<Ref("x")>>,
     Write("b", "+=", 1) \o <<Op("!="), TNumber(1)>>}

LogicalRhs ==
    {<<TBool(TRUE)>>, <<Ref("a")>>, <<Ref("x")>>,
     Write("b", "+=", 1) \o <<Op("=="), TNumber(1)>>,
     Write("a", "=", 2) \o <<Op("!="), TNumber(1)>>}

LogicalInputs ==
    {l \o <<Op(o)>> \o r : l \in LogicalLhs, o \in {"&&", "||"}, r \in LogicalRhs}

\* name(arg, ...): calls of a user function, an inner function, a name that
\* is both or neither, with arguments that fail or write the context
FunctionArgs ==
    {<<TNumber(1)>>, <<Ref("a")>>, <<Ref("x")>>, Write("b", "+=", 1), Write("a", "=", 2)}

FunctionInputs ==
    {<<TFunction(f), OpenParen>> \o Joined(s, Comma) \o <<CloseParen>> :
        f \in FuncNames, s \in UNION {[1..k -> FunctionArgs] : k \in 0..MaxItems}}

\* [i, ...] and {k: v, ...}: items, keys and values that read the context,
\* write it, or fail
CollectionItems ==
    {<<Ref("a")>>, <<Ref("x")>>, Write("a", "=", 2), Write("b", "+=", 1)}

MapKeys == {<<Ref("a")>>, <<Ref("x")>>, Write("a", "=", 2)}
MapValues == {<<Ref("a")>>, <<Ref("x")>>, Write("b", "+=", 1)}
MapEntries == {k \o <<Colon>> \o v : k \in MapKeys, v \in MapValues}

ListExecInputs ==
    {<<OpenBracket>> \o Joined(s, Comma) \o <<CloseBracket>> :
        s \in UNION {[1..k -> CollectionItems] : k \in 0..MaxItems}}

MapExecInputs ==
    {<<OpenBrace>> \o Joined(s, Comma) \o <<CloseBrace>> :
        s \in UNION {[1..k -> MapEntries] : k \in 0..MaxItems}}

CollectionInputs == ListExecInputs \cup MapExecInputs

ExecInputs ==
    SetterInputs \cup NonReferenceSetterInputs \cup SetterChainInputs
    \cup ReferenceInputs \cup TernaryExecInputs \cup ChainExecInputs
    \cup LogicalInputs

Inputs == ParseInputs \cup ExecInputs \cup FunctionInputs \cup CollectionInputs

\* The trees given to the printer: every form of operand under every binary
\* operator of a precedence class below, equal to and above its own.
MaxNest == 2

ExprLeaves == {Reference("a"), Reference("b"), LNumber(12)}
ExprOps == {"=", "&&", "+", "-", "*"}

\* One more level of nesting over the operands of S.
Grow(S) ==
    ExprLeaves
    \cup {List(<<>>), Map(<<>>), Function("d", <<>>)}
    \cup {Unary(u, x) : u \in UnaryOps, x \in S}
    \cup {Binary(o, x, Reference("b")) : o \in ExprOps, x \in S}
    \cup {Binary(o, Reference("a"), x) : o \in ExprOps, x \in S}
    \cup {Ternary(x, Reference("a"), Reference("b")) : x \in S}
    \cup {Ternary(LBool(TRUE), x, Reference("b")) : x \in S}
    \cup {Ternary(LBool(FALSE), Reference("a"), x) : x \in S}
    \cup {Function("f", <<x>>) : x \in S}
    \cup {List(<<x, Reference("a")>>) : x \in S}
    \cup {Map(<<<<x, x>>>>) : x \in S}

RECURSIVE Operands(_)
Operands(n) == IF n = 0 THEN ExprLeaves ELSE Grow(Operands(n - 1))

\* Every form of operand; a binary operator over two nested operands; a
\* unary operator over a binary operator that has a nested operand.
Trees ==
    Operands(MaxNest)
    \cup {Binary(o, x, y) : o \in ExprOps, x \in Operands(1), y \in Operands(1)}
    \cup {Unary(u, Binary(o, x, Reference("b"))) :
             u \in UnaryOps, o \in ExprOps, x \in Operands(1)}

\* Contexts that give the operands numbers, and Bools.
ExprContexts ==
    {[vars |-> [n \in VarNames |->
                  CASE n = "a" -> va [] n = "b" -> vb [] OTHER -> Unbound],
      funcs |-> {"f"}] :
        <<va, vb>> \in {<<VNumber(1), VNumber(2)>>, <<VBool(TRUE), VBool(FALSE)>>}}

\* The contexts a caller hands to exec.
CtxValues == {Unbound, VNumber(1), VNumber(2), VBool(TRUE)}

Contexts ==
    {[vars |-> [n \in VarNames |->
                  CASE n = "a" -> va [] n = "b" -> vb [] n = "c" -> vc [] OTHER -> Unbound],
      funcs |-> fs] :
        va \in CtxValues, vb \in CtxValues, vc \in {Unbound, VNumber(1)},
        fs \in {{}, {"f"}}}

\* The contexts of test_exec and their variations: a variable "d" that
\* shares its name with an inner function, and user functions "f" and "d".
FunctionContexts ==
    {[vars |-> [n \in VarNames |->
                  CASE n = "a" -> va [] n = "b" -> VNumber(1) [] n = "d" -> vd
                    [] OTHER -> Unbound],
      funcs |-> fs] :
        va \in {Unbound, VNumber(1)}, vd \in {Unbound, VNumber(3)},
        fs \in SUBSET {"f", "d"}}

\* The contexts of the list and map literals: "b" bound or not.
CollectionContexts ==
    {[vars |-> [n \in VarNames |->
                  CASE n = "a" -> VNumber(1) [] n = "b" -> vb [] OTHER -> Unbound],
      funcs |-> {}] : vb \in {Unbound, VNumber(1)}}

ContextsFor(toks) ==
    IF toks \in FunctionInputs THEN FunctionContexts
    ELSE IF toks \in CollectionInputs THEN CollectionContexts
    ELSE IF toks \in ExecInputs THEN Contexts
    ELSE {EmptyContext}

(***************************************************************************)
(* The state machine: Parser::new(input), one of the two entry points of   *)
(* the parser, then ExprAST::exec of the parsed tree on the context.       *)
(***************************************************************************)
NotParsed == [ok |-> FALSE, err |-> "NotParsed", pos |-> 1]
NotRun == [ok |-> FALSE, err |-> "NotRun", arg |-> ""]

Init ==
    /\ tokens \in Inputs
    /\ ctx0 \in ContextsFor(tokens)
    /\ ctx = ctx0
    /\ entry = "none"
    /\ pc = "start"
    /\ parsed = NotParsed
    /\ res = NotRun
    /\ tree = NoneAST
    /\ canon = <<>>
    /\ res0 = NotRun
    /\ iteration = <<>>

\* Parser::parse_expression called on a fresh parser
ParseExpression ==
    /\ pc = "start"
    /\ entry' = "parse_expression"
    /\ parsed' = parse_expression(tokens, 1)
    /\ pc' = "parsed"
    /\ UNCHANGED <<tokens, ctx0, ctx, res, tree, canon, res0, iteration>>

\* Parser::parse_chain_expression called on a fresh parser
ParseChainExpression ==
    /\ pc = "start"
    /\ entry' = "parse_chain_expression"
    /\ parsed' = parse_chain_expression(tokens, 1)
    /\ pc' = "parsed"
    /\ UNCHANGED <<tokens, ctx0, ctx, res, tree, canon, res0, iteration>>

\* AST::parse_expression called on a fresh parser of ast.rs
ASTParseExpression ==
    /\ pc = "start"
    /\ entry' = "AST::parse_expression"
    /\ parsed' = AST_parse_expression(tokens, 1)
    /\ pc' = "parsed"
    /\ UNCHANGED <<tokens, ctx0, ctx, res, tree, canon, res0, iteration>>

\* AST::parse_chain_expression called on a fresh parser of ast.rs
ASTParseChainExpression ==
    /\ pc = "start"
    /\ entry' = "AST::parse_chain_expression"
    /\ parsed' = AST_parse_chain_expression(tokens, 1)
    /\ pc' = "parsed"
    /\ UNCHANGED <<tokens, ctx0, ctx, res, tree, canon, res0, iteration>>

\* ExprAST::exec of the tree Parser returned, on the caller's context
Exec ==
    /\ pc = "parsed"
    /\ entry \in {"parse_expression", "parse_chain_expression"}
    /\ parsed.ok
    /\ LET r == exec(parsed.ast, ctx) IN
         /\ res' = IF r.ok THEN [ok |-> TRUE, val |-> r.val]
                   ELSE [ok |-> FALSE, err |-> r.err, arg |-> r.arg]
         /\ ctx' = r.ctx
    /\ pc' = "done"
    /\ UNCHANGED <<tokens, entry, parsed, ctx0, tree, canon, res0, iteration>>

Next ==
    \/ ParseExpression
    \/ ParseChainExpression
    \/ ASTParseExpression
    \/ ASTParseChainExpression
    \/ Exec

Spec == Init /\ [][Next]_vars

(***************************************************************************)
(* The round trip through the canonical printer: a tree is printed with    *)
(* ExprAST::expr, the text is parsed again with Parser::new and            *)
(* parse_expression, and both trees are executed on equal contexts.        *)
(***************************************************************************)
InitExpr ==
    /\ tree \in Trees
    /\ ctx0 \in ExprContexts
    /\ ctx = ctx0
    /\ canon = <<>>
    /\ tokens = <<>>
    /\ entry = "none"
    /\ pc = "tree"
    /\ parsed = NotParsed
    /\ res = NotRun
    /\ res0 = NotRun
    /\ iteration = <<>>

\* ExprAST::expr of the tree
Expr ==
    /\ pc = "tree"
    /\ canon' = expr(tree)
    /\ pc' = "printed"
    /\ UNCHANGED <<tokens, entry, parsed, ctx0, ctx, res, tree, res0, iteration>>

\* Parser::new(text) and parse_expression
Reparse ==
    /\ pc = "printed"
    /\ LET t == Tokenize(canon, 1, <<>>) IN
         /\ tokens' = t.toks
         /\ parsed' = IF t.ok THEN parse_expression(t.toks, 1) ELSE PErr(t.err, 1)
    /\ entry' = "parse_expression"
    /\ pc' = "reparsed"
    /\ UNCHANGED <<ctx0, ctx, res, tree, canon, res0, iteration>>

\* ExprAST::exec of the tree and of the tree parsed from its text, each on
\* its own copy of the caller's context
ExecBoth ==
    /\ pc = "reparsed"
    /\ parsed.ok
    /\ LET r0 == exec(tree, ctx0)
           r == exec(parsed.ast, ctx0)
       IN /\ res0' = IF r0.ok THEN [ok |-> TRUE, val |-> r0.val]
                     ELSE [ok |-> FALSE, err |-> r0.err, arg |-> r0.arg]
          /\ res' = IF r.ok THEN [ok |-> TRUE, val |-> r.val]
                    ELSE [ok |-> FALSE, err |-> r.err, arg |-> r.arg]
          /\ ctx' = r.ctx
    /\ pc' = "compared"
    /\ UNCHANGED <<tokens, entry, parsed, ctx0, tree, canon, iteration>>

NextExpr == Expr \/ Reparse \/ ExecBoth

SpecExpr == InitExpr /\ [][NextExpr]_vars

(***************************************************************************)
(* The loops of Parser, one iteration at a time.  Each operator below is   *)
(* the body of one `loop { ... }` of parser.rs: it either leaves the       *)
(* function (return, break followed by the code after the loop, or `?` on  *)
(* an error) or goes round again from a new position.                      *)
(***************************************************************************)
Continue(pos) == [returned |-> FALSE, ok |-> TRUE, err |-> "", pos |-> pos]
Return(r) ==
    [returned |-> TRUE, ok |-> r.ok, err |-> IF r.ok THEN "" ELSE r.err, pos |-> r.pos]

\* the loop of parse_chain_expression skipping a statement that fails to parse
parse_chain_iteration_skips_errors(toks, pos) ==
    LET statement(r) ==
          IF ~r.ok THEN Continue(r.pos)
          ELSE IF is_semicolon(cur_tok(toks, r.pos))
               THEN Continue(next(toks, r.pos))
               ELSE Continue(r.pos)
    IN IF is_eof(cur_tok(toks, pos)) THEN Return([ok |-> TRUE, pos |-> pos])
       ELSE statement(parse_expression(toks, pos))

\* Parser::parse_chain_expression, one iteration of the loop
parse_chain_iteration(toks, pos) ==
    LET statement(r) ==
          IF ~r.ok THEN Return(r)
          ELSE IF is_semicolon(cur_tok(toks, r.pos))
               THEN Continue(next(toks, r.pos))
               ELSE Continue(r.pos)
    IN IF is_eof(cur_tok(toks, pos)) THEN Return([ok |-> TRUE, pos |-> pos])
       ELSE statement(parse_expression(toks, pos))

\* Parser::parse_op, one iteration of the loop
parse_op_iteration(toks, pos, exec_prec) ==
    LET tok == cur_tok(toks, pos)
        tok_prec == get_token_precidence(tok)
        ternary_colon(e) ==
          IF ~e.ok THEN Return(e) ELSE Return(parse_expression(toks, e.pos))
        ternary_then(a) ==
          IF ~a.ok THEN Return(a) ELSE ternary_colon(expect(toks, a.pos, ":"))
        binary(rhs) == IF ~rhs.ok THEN Return(rhs) ELSE Continue(rhs.pos)
        binary_rhs(rhs) ==
          IF ~rhs.ok THEN Return(rhs)
          ELSE IF rhs_binds_tighter(tok_prec, cur_tok(toks, rhs.pos))
               THEN binary(parse_op(toks, rhs.pos, tok_prec + 1, rhs.ast))
               ELSE binary(rhs)
    IN IF ~is_op_token(tok) THEN Return([ok |-> TRUE, pos |-> pos])
       ELSE IF is_question_mark(tok)
            THEN ternary_then(parse_expression(toks, next(toks, pos)))
       ELSE IF tok_prec < exec_prec THEN Return([ok |-> TRUE, pos |-> pos])
       ELSE binary_rhs(parse_primary(toks, next(toks, pos)))

\* Parser::parse_open_bracket, one iteration of the loop
parse_open_bracket_iteration(toks, pos) ==
    LET after_comma(e) == IF e.ok THEN Continue(e.pos) ELSE Return(e)
        item(r) ==
          IF ~r.ok THEN Return(r)
          ELSE IF ~is_close_bracket(cur_tok(toks, r.pos))
               THEN after_comma(expect(toks, r.pos, ","))
               ELSE Continue(r.pos)
    IN IF is_eof(cur_tok(toks, pos)) \/ is_close_bracket(cur_tok(toks, pos))
       THEN Return(expect(toks, pos, "]"))
       ELSE item(parse_expression(toks, pos))

\* Parser::parse_open_brace, one iteration of the loop
parse_open_brace_iteration(toks, pos) ==
    LET after_comma(e) == IF e.ok THEN Continue(e.pos) ELSE Return(e)
        entry_value(v) ==
          IF ~v.ok THEN Return(v)
          ELSE IF ~is_close_brace(cur_tok(toks, v.pos))
               THEN after_comma(expect(toks, v.pos, ","))
               ELSE Continue(v.pos)
        entry_colon(c) ==
          IF ~c.ok THEN Return(c) ELSE entry_value(parse_expression(toks, c.pos))
        entry_key(k) ==
          IF ~k.ok THEN Return(k) ELSE entry_colon(expect(toks, k.pos, ":"))
    IN IF is_eof(cur_tok(toks, pos)) \/ is_close_brace(cur_tok(toks, pos))
       THEN Return(expect(toks, pos, "}"))
       ELSE entry_key(parse_expression(toks, pos))

\* Parser::parse_function, one iteration of the argument loop
parse_function_iteration(toks, pos) ==
    LET after_comma(e) == IF e.ok THEN Continue(e.pos) ELSE Return(e)
        argument(r) ==
          IF ~r.ok THEN Return(r)
          ELSE IF is_close_paren(cur_tok(toks, r.pos))
               THEN Return([ok |-> TRUE, pos |-> next(toks, r.pos)])
               ELSE after_comma(expect(toks, r.pos, ","))
    IN argument(parse_expression(toks, pos))

Loops ==
    {"parse_chain_expression", "parse_op", "parse_open_bracket", "parse_open_brace",
     "parse_function"}

\* The position at which the parser enters the loop of a function called on
\* a fresh parser: 0 when the input does not lead into that loop.
LoopStart(loop, toks) ==
    LET first == cur_tok(toks, 1)
        primary == parse_primary(toks, 1)
    IN CASE loop = "parse_chain_expression" -> 1
         [] loop = "parse_op" -> IF primary.ok THEN primary.pos ELSE 0
         [] loop = "parse_open_bracket" -> IF is_delim(first, "OpenBracket") THEN 2 ELSE 0
         [] loop = "parse_open_brace" -> IF is_delim(first, "OpenBrace") THEN 2 ELSE 0
         [] loop = "parse_function" ->
              IF /\ first.kind = "Function"
                 /\ is_delim(cur_tok(toks, 2), "OpenParen")
                 /\ ~is_close_paren(cur_tok(toks, 3))
              THEN 3 ELSE 0

\* One iteration of a loop, started at a position of the input.
LoopBody(loop, toks, pos) ==
    CASE loop = "parse_chain_expression" -> parse_chain_iteration(toks, pos)
      [] loop = "parse_op" -> parse_op_iteration(toks, pos, 0)
      [] loop = "parse_open_bracket" -> parse_open_bracket_iteration(toks, pos)
      [] loop = "parse_open_brace" -> parse_open_brace_iteration(toks, pos)
      [] loop = "parse_function" -> parse_function_iteration(toks, pos)

\* A parser in one of its loops.  What an iteration does depends on the
\* tokens and on the position it starts at and on nothing else, so the
\* outcome of an iteration from each position is worked out once.
InitLoops ==
    /\ tokens \in ParseInputs
    /\ entry \in {l \in Loops : LoopStart(l, tokens) > 0}
    /\ iteration = [p \in 1..(Len(tokens) + 1) |-> LoopBody(entry, tokens, p)]
    /\ pc = "loop"
    /\ parsed = [ok |-> TRUE, err |-> "", pos |-> LoopStart(entry, tokens)]
    /\ ctx0 = EmptyContext
    /\ ctx = ctx0
    /\ res = NotRun
    /\ tree = NoneAST
    /\ canon = <<>>
    /\ res0 = NotRun

\* the state after one iteration
Iterated(i) ==
    /\ parsed' = [ok |-> i.ok, err |-> i.err, pos |-> i.pos]
    /\ pc' = IF i.returned THEN "returned" ELSE "loop"
    /\ UNCHANGED <<tokens, entry, ctx0, ctx, res, tree, canon, res0, iteration>>

ChainIteration ==
    /\ pc = "loop" /\ entry = "parse_chain_expression"
    /\ Iterated(iteration[parsed.pos])

OpIteration ==
    /\ pc = "loop" /\ entry = "parse_op"
    /\ Iterated(iteration[parsed.pos])

OpenBracketIteration ==
    /\ pc = "loop" /\ entry = "parse_open_bracket"
    /\ Iterated(iteration[parsed.pos])

OpenBraceIteration ==
    /\ pc = "loop" /\ entry = "parse_open_brace"
    /\ Iterated(iteration[parsed.pos])

FunctionIteration ==
    /\ pc = "loop" /\ entry = "parse_function"
    /\ Iterated(iteration[parsed.pos])

NextLoops ==
    \/ ChainIteration
    \/ OpIteration
    \/ OpenBracketIteration
    \/ OpenBraceIteration
    \/ FunctionIteration

\* A loop that can go round again does: the parser is sequential code.
SpecLoops == InitLoops /\ [][NextLoops]_vars /\ WF_vars(NextLoops)

(***************************************************************************)
(* A caller that builds an ExprAST itself (the enum and its variants are   *)
(* public) and executes it: the operator of a Unary or Binary node need    *)
(* not be one the parser would have accepted.                              *)
(***************************************************************************)
\* Operands that read the context, write it, call a function, or fail.
BuiltOperands ==
    {LNumber(1), Reference("a"), Reference("x"),
     Binary("=", Reference("a"), LNumber(2)),
     Binary("+=", Reference("b"), LNumber(1)),
     Function("f", <<Binary("=", Reference("a"), LNumber(2))>>)}

\* "+" is a binary operator only, "!" a unary operator only, "~" and "%"
\* are in neither registry.
BuiltTrees ==
    {Unary(o, x) : o \in {"!", "-", "+", "~"}, x \in BuiltOperands}
    \cup {Binary(o, l, r) : o \in {"+", "=", "!", "%"},
                            l \in BuiltOperands, r \in BuiltOperands}

InitExec ==
    /\ tree \in BuiltTrees
    /\ ctx0 \in ExprContexts
    /\ ctx = ctx0
    /\ pc = "built"
    /\ tokens = <<>>
    /\ entry = "none"
    /\ parsed = NotParsed
    /\ res = NotRun
    /\ canon = <<>>
    /\ res0 = NotRun
    /\ iteration = <<>>

\* ExprAST::exec called on the tree
ExecTree ==
    /\ pc = "built"
    /\ LET r == exec(tree, ctx) IN
         /\ res' = IF r.ok THEN [ok |-> TRUE, val |-> r.val]
                   ELSE [ok |-> FALSE, err |-> r.err, arg |-> r.arg]
         /\ ctx' = r.ctx
    /\ pc' = "executed"
    /\ UNCHANGED <<tokens, entry, parsed, ctx0, tree, canon, res0, iteration>>

NextExec == ExecTree

SpecExec == InitExec /\ [][NextExec]_vars

(***************************************************************************)
(* Properties                                                              *)
(***************************************************************************)
ParsedBy(e) == pc # "start" /\ entry = e

A == Reference("a")
B == Reference("b")
C == Reference("c")
X == Reference("x")
Y == Reference("y")

\* C1: parse_expression respects the precedence table: with
\* precedence(lo) < precedence(hi), `a lo b hi c` parses to
\* Binary(lo, a, Binary(hi, b, c)), `a hi b lo c` parses to
\* Binary(lo, Binary(hi, a, b), c), and `(a lo b) hi c` parses to
\* Binary(hi, Binary(lo, a, b), c) with no node for the parentheses.
C1_Precedence ==
    ParsedBy("parse_expression") =>
        \A lo \in BinOps, hi \in BinOps :
            get_precidence(lo) < get_precidence(hi) =>
                /\ tokens = ChainToks(<<lo, hi>>) =>
                       parsed.ok /\ parsed.ast = Binary(lo, A, Binary(hi, B, C))
                /\ tokens = ChainToks(<<hi, lo>>) =>
                       parsed.ok /\ parsed.ast = Binary(lo, Binary(hi, A, B), C)
                /\ tokens = ParenToks(lo, hi) =>
                       parsed.ok /\ parsed.ast = Binary(hi, Binary(lo, A, B), C)

C1_Witness ==
    /\ ParsedBy("parse_expression")
    /\ tokens = ChainToks(<<"+", "*">>)
    /\ parsed.ok
    /\ parsed.ast = Binary("+", A, Binary("*", B, C))

\* The binary operators joining the operands of a chain a op1 b op2 c ...
OpsOf(toks) == [i \in 1..((Len(toks) - 1) \div 2) |-> toks[2 * i].op]

\* ((a op1 b) op2 c) op3 d ...: the left-nested tree over a chain
LeftNested(ops) ==
    LET F[i \in 0..Len(ops)] ==
          IF i = 0 THEN Reference(OperandNames[1])
          ELSE Binary(ops[i], F[i - 1], Reference(OperandNames[i + 1]))
    IN F[Len(ops)]

SamePrecedence(ops) ==
    \A i \in 1..Len(ops) : get_precidence(ops[i]) = get_precidence(ops[1])

\* C2: binary operators of equal precedence associate to the left: a chain
\* a op1 b op2 c ... whose operators all have the same precedence (the
\* setters included) parses to the left-nested tree, whatever its length.
C2_LeftAssociative ==
    (ParsedBy("parse_expression") /\ tokens \in ChainInputs /\ SamePrecedence(OpsOf(tokens))) =>
        parsed.ok /\ parsed.ast = LeftNested(OpsOf(tokens))

C2_Witness ==
    /\ ParsedBy("parse_expression")
    /\ tokens = ChainToks(<<"=", "+=", "=">>)
    /\ parsed.ok
    /\ parsed.ast = Binary("=", Binary("+=", Binary("=", A, B), C), Reference("d"))

\* C3: the ternary has the lowest precedence among infix constructs: for
\* `a op1 b op2 c ? x : y` the result is a Ternary whose condition is the
\* whole binary expression to the left of the `?`.
C3_TernaryLowest ==
    (ParsedBy("parse_expression") /\ tokens \in TernaryInputs) =>
        LET n == Len(tokens) - 4
            whole == parse_expression(SubSeq(tokens, 1, n), 1)
        IN parsed.ok /\ parsed.ast = Ternary(whole.ast, X, Y)

\* C4: parse_chain_expression never returns a Chain of exactly one
\* statement: a single statement, with or without a trailing `;`, comes
\* back as that statement's own node.
C4_NoSingletonChain ==
    (ParsedBy("parse_chain_expression") /\ parsed.ok) =>
        /\ ~(parsed.ast.type = "Chain" /\ Len(parsed.ast.stmts) = 1)
        /\ \A s \in Stmts :
              tokens \in {s, s \o <<Semicolon>>} =>
                  parsed.ast = parse_expression(s, 1).ast

C4_Witness ==
    /\ ParsedBy("parse_chain_expression")
    /\ tokens = <<Ref("a"), Op("="), TNumber(1), Semicolon>>
    /\ parsed.ok
    /\ parsed.ast = Binary("=", A, LNumber(1))

\* C5: empty input is a parse error on both entry points:
\* parse_expression and parse_chain_expression return the same error.
C5_EmptyInputIsError ==
    (pc # "start" /\ tokens = <<>>) =>
        ~parsed.ok /\ parsed.err = "UnexpectedEOF"

\* C6: parse_expression returns an error for every input that reaches the
\* end of input inside an incomplete construct (unclosed `[`, `{`, `(`, a
\* map entry missing `:` or its value, a call missing `)` or with an empty
\* argument slot, a ternary missing a branch, a binary operator missing
\* its right operand).
C6_IncompleteIsError ==
    (ParsedBy("parse_expression") /\ tokens \in IncompleteInputs) => ~parsed.ok

C6_Witness ==
    /\ ParsedBy("parse_expression")
    /\ tokens = <<Ref("a"), Op("+")>>
    /\ ~parsed.ok
    /\ parsed.err = "UnexpectedEOF"

\* The number of commas in a token stream.
Commas(toks) == Cardinality({i \in 1..Len(toks) : toks[i] = Comma})

\* The number of items of a Function, List or Map node.
NumItems(ast) ==
    CASE ast.type = "Function" -> Len(ast.args)
      [] ast.type = "List" -> Len(ast.items)
      [] ast.type = "Map" -> Len(ast.pairs)

\* C7: in every comma-separated construct (argument list, list literal, map
\* literal) a `,` directly before the closing delimiter is rejected, so the
\* node has as many items as commas plus one (none for an empty construct).
C7_NoTrailingComma ==
    (ParsedBy("parse_expression") /\ tokens \in CommaInputs) =>
        /\ tokens \in TrailingCommaInputs => ~parsed.ok
        /\ parsed.ok =>
              NumItems(parsed.ast) =
                  IF tokens \in {ListOpen \o <<CloseBracket>>, CallOpen \o <<CloseParen>>,
                                 MapOpen \o <<CloseBrace>>}
                  THEN 0 ELSE Commas(tokens) + 1

\* The base function of a setter: + for `+=`, - for `-=`, take rhs for `=`.
SetterBase(op, v, w) ==
    CASE op = "=" -> FOk(w)
      [] op = "+=" -> CalcFn("+", v, w)
      [] op = "-=" -> CalcFn("-", v, w)

\* C8: executing Binary(op, Reference(n), rhs) with op a setter and n bound
\* to v binds n to base_fn(v, value of rhs), leaves every other binding as
\* the evaluation of rhs left it, and returns Value::None.
C8_SetterWrites ==
    (/\ pc = "done"
     /\ parsed.ast.type = "Binary"
     /\ parsed.ast.op \in SetterOps
     /\ parsed.ast.lhs.type = "Reference"
     /\ ctx0.vars[parsed.ast.lhs.name] # Unbound) =>
        LET n == parsed.ast.lhs.name
            r == exec(parsed.ast.rhs, ctx0)
            w == SetterBase(parsed.ast.op, ctx0.vars[n], r.val)
        IN (r.ok /\ w.ok) =>
              /\ res.ok
              /\ res.val = VNone
              /\ ctx.vars[n] = w.val
              /\ \A m \in VarNames \ {n} : ctx.vars[m] = r.ctx.vars[m]
              /\ ctx.funcs = r.ctx.funcs

C8_Witness ==
    /\ pc = "done"
    /\ tokens = <<Ref("a"), Op("+="), Ref("b"), Op("+"), TNumber(1)>>
    /\ ctx0.vars["a"] = VNumber(2)
    /\ ctx0.vars["b"] = VNumber(1)
    /\ ctx0.vars["c"] = VNumber(1)
    /\ res.ok
    /\ res.val = VNone
    /\ ctx.vars["a"] = VNumber(4)
    /\ ctx.vars["c"] = VNumber(1)

\* C9: assignment creates a binding: `n = e; n op= e2; n` on a context in
\* which n is unbound succeeds, and both the result and ctx[n] equal
\* base_fn(e, e2).
C9_AssignmentCreatesBinding ==
    (pc = "done" /\ entry = "parse_chain_expression") =>
        \A n \in {"a", "d"}, e \in 1..3, o \in SetterOps, e2 \in 1..4 :
            (tokens = SetterChainToks(n, e, o, e2, FALSE) /\ ctx0.vars[n] = Unbound) =>
                LET w == SetterBase(o, VNumber(e), VNumber(e2)) IN
                res.ok /\ res.val = w.val /\ ctx.vars[n] = w.val

\* C10: executing a setter Binary whose lhs is not a Reference returns the
\* typed error NotReferenceExpr, never Ok.
C10_NotReferenceExpr ==
    (/\ pc = "done"
     /\ parsed.ast.type = "Binary"
     /\ parsed.ast.op \in SetterOps
     /\ parsed.ast.lhs.type # "Reference") =>
        ~res.ok /\ res.err = "NotReferenceExpr"

\* C11: executing Reference(n) leaves the context unchanged; it fails with
\* ReferenceNotExist(n) when n is unbound and returns the bound value when
\* n is bound.
C11_Reference ==
    (pc = "done" /\ parsed.ast.type = "Reference") =>
        LET n == parsed.ast.name IN
        /\ ctx = ctx0
        /\ IF ctx0.vars[n] = Unbound
           THEN ~res.ok /\ res.err = "ReferenceNotExist" /\ res.arg = n
           ELSE res.ok /\ res.val = ctx0.vars[n]

C11_Witness ==
    /\ pc = "done"
    /\ parsed.ast = C
    /\ ctx0.vars["c"] = Unbound
    /\ ~res.ok
    /\ res.err = "ReferenceNotExist"
    /\ res.arg = "c"
    /\ ctx = ctx0

\* What a caller sees of an exec result: the value, or the error.
Outcome(r) ==
    IF r.ok THEN [ok |-> TRUE, val |-> r.val]
    ELSE [ok |-> FALSE, err |-> r.err, arg |-> r.arg]

\* C12: ternary evaluation is lazy: Ternary(c, t, e) evaluates c once, then
\* exactly one of t and e (t for Bool(true), e for Bool(false)); result and
\* context are those of c followed by the chosen branch alone, and a
\* condition that is not a Bool gives ShouldBeBool with the context as c
\* left it.
C12_TernaryLazy ==
    (pc = "done" /\ parsed.ast.type = "Ternary") =>
        LET rc == exec(parsed.ast.cond, ctx0)
            rt == exec(parsed.ast.lhs, rc.ctx)
            re == exec(parsed.ast.rhs, rc.ctx)
        IN IF ~rc.ok THEN res = Outcome(rc) /\ ctx = rc.ctx
           ELSE IF rc.val = VBool(TRUE) THEN res = Outcome(rt) /\ ctx = rt.ctx
           ELSE IF rc.val = VBool(FALSE) THEN res = Outcome(re) /\ ctx = re.ctx
           ELSE ~res.ok /\ res.err = "ShouldBeBool" /\ ctx = rc.ctx

C12_Witness ==
    /\ pc = "done"
    /\ tokens = <<TBool(TRUE), QuestionMark, TNumber(1), Colon, Ref("x")>>
    /\ parsed.ast = Ternary(LBool(TRUE), LNumber(1), X)
    /\ res = [ok |-> TRUE, val |-> VNumber(1)]
    /\ ctx = ctx0

\* The results of the statements of a chain, each run on the context the
\* one before it left.
RunInOrder(stmts, c) ==
    LET F[i \in 0..Len(stmts)] ==
          IF i = 0 THEN EOk(VNone, c) ELSE exec(stmts[i], F[i - 1].ctx)
    IN F

\* C13: executing Chain(s1..sn) runs the statements in order on the same
\* context; the result is the value of sn (Value::None for no statement);
\* when sk is the first statement to fail the chain returns sk's error and
\* the context is as s1..sk left it: nothing is rolled back and nothing
\* after sk is executed.
C13_ChainInOrder ==
    (pc = "done" /\ parsed.ast.type = "Chain") =>
        LET stmts == parsed.ast.stmts
            n == Len(stmts)
            run == RunInOrder(stmts, ctx0)
            failing == {i \in 1..n : ~run[i].ok /\ \A j \in 1..(i - 1) : run[j].ok}
        IN IF failing = {}
           THEN res = Outcome(run[n]) /\ ctx = run[n].ctx
           ELSE \A k \in failing : res = Outcome(run[k]) /\ ctx = run[k].ctx

C13_Witness ==
    /\ pc = "done"
    /\ parsed.ast = Chain(<<Binary("=", A, LNumber(2)), X, Binary("+=", B, LNumber(1))>>)
    /\ ctx0.vars["a"] = VNumber(1)
    /\ ctx0.vars["b"] = VNumber(1)
    /\ res = [ok |-> FALSE, err |-> "ReferenceNotExist", arg |-> "x"]
    /\ ctx.vars["a"] = VNumber(2)
    /\ ctx.vars["b"] = VNumber(1)

\* C14: a Calc Binary(op, l, r), `&&` and `||` included, evaluates l and
\* then r whatever the value of l, and only then applies the operator
\* function: the errors and the context writes of r occur even when l alone
\* would decide the result.
C14_NoShortCircuit ==
    (pc = "done" /\ parsed.ast.type = "Binary" /\ parsed.ast.op \in CalcOps) =>
        LET a == exec(parsed.ast.lhs, ctx0)
            b == exec(parsed.ast.rhs, a.ctx)
            v == BinaryOpFunc(parsed.ast.op, a.val, b.val)
        IN IF ~a.ok THEN res = Outcome(a) /\ ctx = a.ctx
           ELSE IF ~b.ok THEN res = Outcome(b) /\ ctx = b.ctx
           ELSE /\ ctx = b.ctx
                /\ IF v.ok THEN res = [ok |-> TRUE, val |-> v.val]
                   ELSE ~res.ok /\ res.err = v.err

C14_Witness ==
    /\ pc = "done"
    /\ tokens = <<TBool(TRUE), Op("||")>> \o Write("b", "+=", 1) \o <<Op("=="), TNumber(1)>>
    /\ parsed.ast.op = "||"
    /\ ctx0.vars["b"] = VNumber(1)
    /\ res = [ok |-> TRUE, val |-> VBool(TRUE)]
    /\ ctx.vars["b"] = VNumber(2)

\* C15: executing Function(name, args) evaluates the arguments left to
\* right before it resolves the name; a function the context registers is
\* called even when the inner registry has the name too, the inner registry
\* is consulted only otherwise, and a name in neither fails with
\* FunctionNotExist after the arguments have had their effects.  A variable
\* of the same name plays no part.
C15_FunctionResolution ==
    (pc = "done" /\ parsed.ast.type = "Function") =>
        LET name == parsed.ast.name
            n == Len(parsed.ast.args)
            run == RunInOrder(parsed.ast.args, ctx0)
            failing == {i \in 1..n : ~run[i].ok /\ \A j \in 1..(i - 1) : run[j].ok}
            params == [i \in 1..n |-> run[i].val]
        IN IF failing # {}
           THEN \A k \in failing : res = Outcome(run[k]) /\ ctx = run[k].ctx
           ELSE /\ ctx = run[n].ctx
                /\ IF name \in ctx0.funcs
                   THEN res = [ok |-> TRUE, val |-> UserFunction(name, params).val]
                   ELSE IF name \in InnerFunctions
                        THEN IF InnerFunction(name, params).ok
                             THEN res = [ok |-> TRUE, val |-> InnerFunction(name, params).val]
                             ELSE ~res.ok /\ res.err = InnerFunction(name, params).err
                        ELSE ~res.ok /\ res.err = "FunctionNotExist"

C15_Witness ==
    /\ pc = "done"
    /\ parsed.ast = Function("d", <<Binary("+=", B, LNumber(1))>>)
    /\ ctx0.funcs = {"f", "d"}
    /\ ctx0.vars["d"] = VNumber(3)
    /\ res = [ok |-> TRUE, val |-> VNumber(3)]
    /\ ctx.vars["b"] = VNumber(2)

\* C19: a setter checks that its lhs is a Reference before it evaluates
\* either operand: when a setter Binary fails with NotReferenceExpr the
\* context is exactly what it was before the call.
C19_CheckBeforeEvaluate ==
    (/\ pc = "done"
     /\ parsed.ast.type = "Binary"
     /\ parsed.ast.op \in SetterOps
     /\ parsed.ast.lhs.type # "Reference"
     /\ ~res.ok
     /\ res.err = "NotReferenceExpr") =>
        ctx = ctx0

\* C20: a binary operator with no right operand (`operand op` and then the
\* end of input) makes parse_expression fail with UnexpectedEOF in both
\* parsers of the source, Parser of parser.rs and AST of ast.rs: neither
\* returns Ok with a Binary whose rhs is a None node.
C20_TrailingOperator ==
    (/\ pc # "start"
     /\ entry \in {"parse_expression", "AST::parse_expression"}
     /\ tokens \in TrailingOperatorInputs) =>
        ~parsed.ok /\ parsed.err = "UnexpectedEOF"

\* C16: the round trip under canonical printing preserves meaning: for every
\* tree, parsing the text of expr() succeeds, and the tree it yields gives
\* the same exec result as the original on equal contexts.
C16_RoundTripMeaning ==
    /\ pc \in {"reparsed", "compared"} => parsed.ok
    /\ pc = "compared" =>
          /\ res.ok = res0.ok
          /\ res.ok => res.val = res0.val
          /\ ~res.ok => res.err = res0.err

\* C17: canonicalisation is idempotent: printing a tree, parsing the text
\* and printing the result gives the text of the first printing.
C17_Idempotent ==
    pc \in {"reparsed", "compared"} => parsed.ok /\ expr(parsed.ast) = canon

\* C18: expr renders Binary(op, l, r) as `L op R` with single spaces, an
\* operand's text being in parentheses if and only if the operand is a
\* Binary whose operator has a precedence strictly below that of op;
\* operands of equal or higher precedence and operands that are not a
\* Binary are printed bare.
C18_BinaryParentheses ==
    (pc # "tree" /\ tree.type = "Binary") =>
        LET Operand(x) ==
              IF x.type = "Binary" /\ get_precidence(x.op) < get_precidence(tree.op)
              THEN <<"(">> \o expr(x) \o <<")">>
              ELSE expr(x)
        IN canon = Operand(tree.lhs) \o <<" ">> \o Chars(tree.op) \o <<" ">> \o Operand(tree.rhs)

C18_Witness ==
    /\ pc = "printed"
    /\ tree = Binary("*", Binary("+", A, B), Binary("*", A, B))
    /\ canon = <<"(", "a", " ", "+", " ", "b", ")", " ", "*", " ", "a", " ", "*", " ", "b">>

\* C21: when parse_primary returns Ok the current token is the first token
\* after the primary, for every form of primary and in both parsers of the
\* source: a primary that is the whole input leaves the parser at the end of
\* input (after `[]` and `{}` the closing delimiter has been consumed), and
\* a primary followed by `* c` becomes the lhs of that Binary.
C21_PrimaryConsumed ==
    (pc # "start" /\ entry \in {"parse_expression", "AST::parse_expression"}) =>
        /\ tokens \in PrimaryInputs =>
              parsed.ok /\ parsed.pos = Len(tokens) + 1
        /\ tokens \in PrimaryThenOpInputs =>
              /\ parsed.ok
              /\ parsed.pos = Len(tokens) + 1
              /\ parsed.ast.type = "Binary"
              /\ parsed.ast.op = "*"
              /\ parsed.ast.rhs = C

\* C22: parse_chain_expression accepts exactly expression (';' expression)*
\* followed by the end of input: statements separated by ";" are accepted,
\* two statements with no ";" between them (`a b`) are rejected, and so is a
\* ";" that no expression follows.
C22_ChainGrammar ==
    ParsedBy("parse_chain_expression") =>
        /\ tokens \in SeparatedInputs => parsed.ok
        /\ tokens \in JuxtaposedInputs \cup DanglingSemicolonInputs => ~parsed.ok

\* The keys and values of a map literal in the order of the text: key of
\* pair 1, value of pair 1, key of pair 2, ...
Flattened(pairs) ==
    [i \in 1..(2 * Len(pairs)) |-> pairs[(i + 1) \div 2][2 - (i % 2)]]

\* C23: executing List(items) or Map(pairs) evaluates the items left to
\* right on the same context (for a map: key 1, value 1, key 2, ...); the
\* first item to fail aborts the literal with its error, the context is as
\* the items up to it left it and nothing after it is executed; on success
\* the Value::List / Value::Map has the length and the order of the literal,
\* duplicate map keys kept as separate pairs.
C23_ItemsInOrder ==
    (pc = "done" /\ parsed.ast.type \in {"List", "Map"}) =>
        LET isList == parsed.ast.type = "List"
            items == IF isList THEN parsed.ast.items ELSE Flattened(parsed.ast.pairs)
            n == Len(items)
            run == RunInOrder(items, ctx0)
            failing == {i \in 1..n : ~run[i].ok /\ \A j \in 1..(i - 1) : run[j].ok}
            whole == IF isList
                     THEN VList([i \in 1..n |-> run[i].val])
                     ELSE VMap([i \in 1..(n \div 2) |-> <<run[2 * i - 1].val, run[2 * i].val>>])
        IN IF failing = {}
           THEN res = [ok |-> TRUE, val |-> whole] /\ ctx = run[n].ctx
           ELSE \A k \in failing : res = Outcome(run[k]) /\ ctx = run[k].ctx

\* {a: (b += 1), (a = 2): a} with a = 1, b = 1: the second key writes a
\* before the second value reads it.
C23_Witness ==
    /\ pc = "done"
    /\ parsed.ast = Map(<<<<A, Binary("+=", B, LNumber(1))>>,
                          <<Binary("=", A, LNumber(2)), A>>>>)
    /\ ctx0.vars["a"] = VNumber(1)
    /\ ctx0.vars["b"] = VNumber(1)
    /\ res.ok
    /\ res.val.k = "Map"
    /\ Len(res.val.pairs) = 2
    /\ res.val.pairs[1][1] = VNumber(1)
    /\ res.val.pairs[2][2] = VNumber(2)
    /\ ctx.vars["a"] = VNumber(2)

\* What the function of a loop returns when called on a fresh parser.
Whole(loop, toks) ==
    CASE loop = "parse_chain_expression" -> parse_chain_expression(toks, 1)
      [] loop = "parse_op" -> parse_expression(toks, 1)
      [] OTHER -> parse_primary(toks, 1)

\* The iterations of a loop end where the function ends, with its outcome.
LoopsAgree ==
    pc = "returned" =>
        LET w == Whole(entry, tokens) IN
        /\ parsed.ok = w.ok
        /\ parsed.pos = w.pos
        /\ ~w.ok => parsed.err = w.err

\* A parse of a primary or of an expression that succeeds, from any position
\* of the input, has consumed at least one token and stops within the input.
Consumes(toks, p) ==
    LET primary == parse_primary(toks, p)
        expression == parse_expression(toks, p)
    IN /\ primary.ok => primary.pos > p /\ primary.pos <= Len(toks) + 1
       /\ expression.ok => expression.pos > p /\ expression.pos <= Len(toks) + 1

\* C24: parsing always terminates: every iteration of the loops of
\* parse_chain_expression, parse_op, parse_open_bracket, parse_open_brace
\* and parse_function either leaves the loop or consumes at least one token,
\* whatever token it starts at (a closing delimiter, `,`, `:`, `?`, an
\* operator that is not binary); the expressions parsed inside an iteration
\* consume at least one token from every position; and every loop returns.
C24_Terminates ==
    /\ [][pc' = "returned" \/ parsed'.pos > parsed.pos]_vars
    /\ [](\A p \in 1..(Len(tokens) + 1) : Consumes(tokens, p))
    /\ <>(pc = "returned")

\* a ; ) b: the second iteration of the statement loop starts at `)` and
\* returns the error of parse_delim.
C24_Witness ==
    /\ pc = "returned"
    /\ entry = "parse_chain_expression"
    /\ tokens = <<Ref("a"), Semicolon, CloseParen, Ref("b")>>
    /\ ~parsed.ok
    /\ parsed.err = "NoOpenDelim"
    /\ parsed.pos = 3

RECURSIVE HasNone(_)
\* an ExprAST::None node at any depth of a tree: the root, an operand, an
\* argument, a list item, a map key or value, a chain statement
HasNone(ast) ==
    CASE ast.type = "None" -> TRUE
      [] ast.type = "Unary" -> HasNone(ast.rhs)
      [] ast.type = "Binary" -> HasNone(ast.lhs) \/ HasNone(ast.rhs)
      [] ast.type = "Ternary" ->
           HasNone(ast.cond) \/ HasNone(ast.lhs) \/ HasNone(ast.rhs)
      [] ast.type = "Function" -> \E i \in 1..Len(ast.args) : HasNone(ast.args[i])
      [] ast.type = "List" -> \E i \in 1..Len(ast.items) : HasNone(ast.items[i])
      [] ast.type = "Map" ->
           \E i \in 1..Len(ast.pairs) :
               HasNone(ast.pairs[i][1]) \/ HasNone(ast.pairs[i][2])
      [] ast.type = "Chain" -> \E i \in 1..Len(ast.stmts) : HasNone(ast.stmts[i])
      [] OTHER -> FALSE

\* C25: no tree that Parser::parse_expression or parse_chain_expression
\* returns with Ok holds an ExprAST::None node at any depth: where a primary
\* is expected and the input ends, the parser returns an error.
C25_NoNoneNode ==
    (/\ pc # "start"
     /\ entry \in {"parse_expression", "parse_chain_expression"}
     /\ parsed.ok) =>
        ~HasNone(parsed.ast)

\* f(a, : the input ends where the second argument is expected.
C25_Witness ==
    /\ ParsedBy("parse_chain_expression")
    /\ tokens = CallOpen \o <<Ref("a"), Comma>>
    /\ ~parsed.ok
    /\ parsed.err = "UnexpectedEOF"

====
